---- MODULE Spec2Model ----
(***************************************************************************)
(* Model of the voice-command pipeline of backend/travel_plans/services/   *)
(* voice_service.py:                                                       *)
(*   - VoiceRecognitionService.transcribe_audio and its WebSocket          *)
(*     callbacks (_on_open's send thread, _on_message, _on_error), under   *)
(*     specification Spec;                                                 *)
(*   - VoiceCommandProcessor's rule-based fallback, under CmdSpec and      *)
(*     RepeatSpec, and process_command with the LLM, under ProcSpec;       *)
(*   - overlapping requests on one service object, under OverlapSpec;      *)
(*   - VoiceRecognitionService.__init__, under ConstructSpec;              *)
(*   - VoiceService.process_voice_command and, of budget_service.py,       *)
(*     ExpenseTracker.add_expense_from_voice (TrackSpec) and               *)
(*     categorize_expense (CategorizeSpec).                                *)
(***************************************************************************)
EXTENDS Integers, Sequences, FiniteSets, TLC

(***************************************************************************)
(* Bounds of the model.                                                    *)
(***************************************************************************)
\* PCM buffers hold up to MaxFrames full frames plus a remainder.
MaxFrames == 2
\* Envelopes the server sends in one session.
MaxMsgs == 2
\* Envelopes in flight (sent by the server, not yet dispatched).
MaxInFlight == 2
\* transcribe_audio calls made on the one service object.
MaxCalls == 1
\* Clock ticks while run_forever() is blocked (while polling, the clock
\* ticks as long as the poll loop waits).
MaxTicks == 5

(***************************************************************************)
(* Program constants.                                                      *)
(***************************************************************************)
STATUS_FIRST_FRAME == 0
STATUS_CONTINUE_FRAME == 1
STATUS_LAST_FRAME == 2
frame_size == 1280
timeout == 30
\* The clock advances a third of the timeout at a time.
TickStep == timeout \div 3
\* Non-zero header codes of the recognition service.
ErrorCodes == {10165}

VARIABLES
    \* VoiceRecognitionService fields
    app_id, api_key, api_secret,
    recognition_result, recognition_complete, recognition_error,
    \* transcribe_audio: position, locals and return value
    pcMain, pcm_audio_data, start_time, ret, calls,
    \* the WebSocketApp: connection state and envelopes in flight
    ws, inbox, sent_by_server,
    \* the send thread of _on_open: position and locals
    pcSend, status, audio_offset, buf,
    \* history: frames handed to the channel, envelopes dispatched to
    \* _on_message, number of _convert_audio_to_pcm calls, channels created
    frames, received, decodes, channels,
    \* the clock (seconds since the call was entered)
    now,
    \* VoiceCommandProcessor: the transcript and context it is called with,
    \* its position and the command it returns
    transcription, context, cmdPc, command,
    \* VoiceCommandProcessor: its user and llm_service fields, and what the
    \* LLM collaborator does when it is asked
    user, llm_service, llm,
    \* requests that go through one VoiceRecognitionService object at the
    \* same time: per request its position, channel, envelopes in flight,
    \* envelopes received, start of its poll loop and return value
    requests,
    \* the audio bytes handed to transcribe_audio (their number)
    audio_data,
    \* VoiceRecognitionService.__init__: its arguments, the records and
    \* settings it reads, and its position
    construction,
    \* VoiceService.process_voice_command: its return value
    voice_result,
    \* ExpenseTracker: its voice_service field and the call in progress;
    \* the TravelPlan and ExpenseEntry tables
    tracker, plans, expenses,
    \* ExpenseTracker.categorize_expense next to the voice extractor: the
    \* description and amount given and the two categories returned
    categorized,
    \* the calls of _fallback_rule_based_processing made on one processor
    fallback_log

svcVars == <<app_id, api_key, api_secret>>
sessVars == <<recognition_result, recognition_complete, recognition_error>>
mainVars == <<pcMain, pcm_audio_data, start_time, ret, calls>>
chanVars == <<ws, inbox, sent_by_server>>
sendVars == <<pcSend, status, audio_offset, buf, frames>>
histVars == <<received, decodes, channels>>
voiceVars == <<svcVars, sessVars, mainVars, chanVars, sendVars, histVars, now>>
cmdVars == <<transcription, context, cmdPc, command>>
procVars == <<user, llm_service, llm>>
trackVars == <<voice_result, tracker, plans, expenses>>
appVars == <<audio_data, construction, trackVars, categorized, fallback_log>>

(***************************************************************************)
(* Values.                                                                 *)
(***************************************************************************)
Min(a, b) == IF a <= b THEN a ELSE b

\* Python's None for recognition_error, and the two strings the code stores.
None == [kind |-> "None", code |-> 0]
\* f"请求错误：{code}"
RequestError(code) == [kind |-> "request_error", code |-> code]
\* str(e) of an exception or of a transport error; kind "" is the empty string.
StrOf(e) == [kind |-> e, code |-> 0]
\* Python truthiness of recognition_error: None and "" are falsy.
Truthy(err) == err.kind \notin {"None", ""}

\* Texts are sequences of one-character strings.
Space == " "
\* str.strip(): leading and trailing whitespace removed.
RECURSIVE LStrip(_)
LStrip(s) == IF s # <<>> /\ Head(s) = Space THEN LStrip(Tail(s)) ELSE s
RECURSIVE RStrip(_)
RStrip(s) ==
    IF s # <<>> /\ s[Len(s)] = Space THEN RStrip(SubSeq(s, 1, Len(s) - 1)) ELSE s
Strip(s) == RStrip(LStrip(s))

\* Return values of transcribe_audio.
NoReturn == [success |-> FALSE, tag |-> "pending", cause |-> None, text |-> <<>>]
NotConfigured ==
    [success |-> FALSE, tag |-> "not_configured", cause |-> None, text |-> <<>>]
RecognitionTimeout ==
    [success |-> FALSE, tag |-> "timeout", cause |-> None, text |-> <<>>]
\* f'语音识别失败: {cause}'
Failed(cause) == [success |-> FALSE, tag |-> "failed", cause |-> cause, text |-> <<>>]
Success(text) == [success |-> TRUE, tag |-> "", cause |-> None, text |-> text]

(***************************************************************************)
(* Received envelopes: {header: {code, status}, payload?}.  A payload is   *)
(* the decoded text['ws']: a list of items, each a list 'cw' of words 'w'. *)
(***************************************************************************)
NoPayload == <<>>
BadPayload == << << <<"?">> >> >>
PayloadA == << << <<Space>>, <<"a">> >> >>
PayloadB == << << <<"b">> >>, << <<Space>> >> >>
Payloads == {NoPayload, PayloadA, PayloadB, BadPayload}
\* A message that is not such an envelope (not JSON, or no header fields).
Malformed == [kind |-> "malformed", code |-> 0, status |-> 0, payload |-> NoPayload]
\* The close frame that ends the connection from the server's side.
CloseFrame == [kind |-> "close", code |-> 0, status |-> 0, payload |-> NoPayload]
Envelopes ==
    [kind : {"envelope"}, code : {0} \cup ErrorCodes, status : {1, 2}, payload : Payloads]
        \cup {Malformed}

\* The nested loops of _on_message: for i in text_ws: for j in i["cw"]: result += j["w"]
RECURSIVE ConcatAll(_)
ConcatAll(ss) == IF ss = <<>> THEN <<>> ELSE Head(ss) \o ConcatAll(Tail(ss))
Words(payload) == ConcatAll([i \in 1..Len(payload) |-> ConcatAll(payload[i])])

(***************************************************************************)
(* Inputs.                                                                 *)
(***************************************************************************)
Credentials == {"", "set"}
PcmLengths == {k * frame_size + r : k \in 0..MaxFrames, r \in {0, 1}}
ErrorStrings == {"", "connection lost"}

VoiceInit ==
    /\ app_id \in Credentials
    /\ api_key \in Credentials
    /\ api_secret \in Credentials
    /\ recognition_result = <<>>
    /\ recognition_complete = FALSE
    /\ recognition_error = None
    /\ pcMain = "idle"
    /\ pcm_audio_data = 0
    /\ start_time = 0
    /\ ret = NoReturn
    /\ calls = 0
    /\ ws = "none"
    /\ inbox = <<>>
    /\ sent_by_server = 0
    /\ pcSend = "none"
    /\ status = STATUS_FIRST_FRAME
    /\ audio_offset = 0
    /\ buf = <<0, 0>>
    /\ frames = <<>>
    /\ received = <<>>
    /\ decodes = 0
    /\ channels = 0
    /\ now = 0


(***************************************************************************)
(* transcribe_audio, up to ws.run_forever().                               *)
(***************************************************************************)
\* Line 209: any empty credential means "not configured".
\* (Mutant: only when all three are empty.)
CredentialsMissing_AllEmpty == api_key = "" /\ api_secret = "" /\ app_id = ""
CredentialsMissing == api_key = "" \/ api_secret = "" \/ app_id = ""

\* Lines 222-224: the recognition result is reset.
ResetSession ==
    /\ recognition_result' = <<>>
    /\ recognition_complete' = FALSE
    /\ recognition_error' = None

\* Lines 226-237: the WebSocketApp is created; nothing is sent yet.  A
\* send thread left over from an earlier call holds that call's closed
\* channel, on which it can only fail: it is dropped here.
CreateChannel ==
    /\ ws' = "connecting"
    /\ inbox' = <<>>
    /\ sent_by_server' = 0
    /\ channels' = channels + 1
    /\ pcSend' = "none"
    /\ UNCHANGED <<status, audio_offset, buf>>

\* Lines 209-237.  _convert_audio_to_pcm either raises (every decoder
\* refuses the bytes, or pydub is missing) or returns a PCM buffer.
Transcribe ==
    /\ UNCHANGED <<cmdVars, procVars, requests, appVars>>
    /\ pcMain \in {"idle", "returned"}
    /\ calls < MaxCalls
    /\ calls' = calls + 1
    /\ now' = 0
    /\ start_time' = 0
    /\ frames' = <<>>
    /\ received' = <<>>
    /\ UNCHANGED svcVars
    /\ IF CredentialsMissing
       THEN /\ ret' = NotConfigured
            /\ pcMain' = "returned"
            /\ UNCHANGED <<sessVars, pcm_audio_data, chanVars, pcSend, status,
                           audio_offset, buf, decodes, channels>>
       ELSE /\ decodes' = decodes + 1
            /\ \/ /\ ret' = Failed(StrOf("convert"))
                  /\ pcMain' = "returned"
                  /\ UNCHANGED <<sessVars, pcm_audio_data, chanVars, pcSend, status,
                                 audio_offset, buf, channels>>
               \/ /\ pcm_audio_data' \in PcmLengths
                  /\ ResetSession
                  /\ CreateChannel
                  /\ ret' = NoReturn
                  /\ pcMain' = "run_forever"

(***************************************************************************)
(* The callbacks, which run on the thread that is inside run_forever().    *)
(***************************************************************************)
\* Lines 309-312.
_on_error(e) == recognition_error' = StrOf(e)

\* Lines 318-326 and 405: the send thread is started; run() initialises
\* its locals.
_on_open ==
    /\ pcSend' = "loop"
    /\ status' = STATUS_FIRST_FRAME
    /\ audio_offset' = 0
    /\ UNCHANGED <<buf, frames>>

\* ws.close(): the connection is shut down; envelopes not yet dispatched
\* are never handed to _on_message.
CloseChannel == ws' = "closed" /\ inbox' = <<>>

\* Lines 282-285: a non-zero code ends the session; the handler returns.
\* (Mutant: the return is missing, the envelope is processed further.)
OnRequestError_FallsThrough(message) ==
    /\ recognition_error' = RequestError(message.code)
    /\ CloseChannel
    /\ recognition_result' =
           IF message.payload \notin {NoPayload, BadPayload}
           THEN recognition_result \o Words(message.payload)
           ELSE recognition_result
    /\ recognition_complete' = (recognition_complete \/ message.status = 2)
OnRequestError(message) ==
    /\ recognition_error' = RequestError(message.code)
    /\ CloseChannel
    /\ UNCHANGED <<recognition_result, recognition_complete>>

\* Lines 287-298: the words of the payload are appended to the result.
\* (Mutant: they are put in front of it.)
AccumulatePayload_Prepends(message) ==
    recognition_result' =
        IF message.payload # NoPayload
        THEN Words(message.payload) \o recognition_result
        ELSE recognition_result
\* (Mutant: the words of the completing envelope are left out.)
AccumulatePayload_SkipsFinal(message) ==
    recognition_result' =
        IF message.payload # NoPayload /\ message.status # 2
        THEN recognition_result \o Words(message.payload)
        ELSE recognition_result
AccumulatePayload(message) ==
    recognition_result' =
        IF message.payload # NoPayload
        THEN recognition_result \o Words(message.payload)
        ELSE recognition_result

\* Lines 300-302: status 2 completes the session and closes the channel.
\* (Mutant: the channel is left open.)
OnStatus_KeepsOpen(message) ==
    /\ recognition_complete' = (recognition_complete \/ message.status = 2)
    /\ ws' = ws
    /\ inbox' = Tail(inbox)
OnStatus(message) ==
    IF message.status = 2
    THEN recognition_complete' = TRUE /\ CloseChannel
    ELSE recognition_complete' = recognition_complete /\ ws' = ws /\ inbox' = Tail(inbox)

\* Lines 304-307: whatever the handler raises is recorded and the channel
\* closed.  The statements that can raise come before any assignment.
OnException ==
    /\ recognition_error' = StrOf("exception")
    /\ CloseChannel
    /\ UNCHANGED <<recognition_result, recognition_complete>>

\* Lines 275-307.
_on_message(message) ==
    /\ received' = Append(received, message)
    /\ IF message.kind = "malformed"
       THEN \* json.loads or the header lookup raises
            OnException
       ELSE IF message.code # 0
       THEN OnRequestError(message)
       ELSE IF message.payload = BadPayload
       THEN \* the payload cannot be decoded
            OnException
       ELSE /\ AccumulatePayload(message)
            /\ OnStatus(message)
            /\ UNCHANGED recognition_error

\* run_forever() connects: the connection opens (on_open), or it fails
\* (on_error, run_forever returns).
Connect ==
    /\ UNCHANGED <<cmdVars, procVars, requests, appVars>>
    /\ pcMain = "run_forever"
    /\ ws = "connecting"
    /\ \/ /\ ws' = "open"
          /\ _on_open
          /\ UNCHANGED sessVars
       \/ /\ \E e \in ErrorStrings : _on_error(e)
          /\ ws' = "closed"
          /\ UNCHANGED <<recognition_result, recognition_complete, sendVars>>
    /\ UNCHANGED <<svcVars, mainVars, inbox, sent_by_server, histVars, now>>

\* run_forever() dispatches the next thing read from the connection.
Dispatch ==
    /\ UNCHANGED <<cmdVars, procVars, requests, appVars>>
    /\ pcMain = "run_forever"
    /\ ws = "open"
    /\ inbox # <<>>
    /\ IF Head(inbox).kind = "close"
       THEN CloseChannel /\ UNCHANGED <<sessVars, received>>
       ELSE _on_message(Head(inbox))
    /\ UNCHANGED <<svcVars, mainVars, sent_by_server, sendVars, decodes, channels, now>>

\* The connection breaks: run_forever() reports it (on_error) and tears down.
TransportError ==
    /\ UNCHANGED <<cmdVars, procVars, requests, appVars>>
    /\ pcMain = "run_forever"
    /\ ws = "open"
    /\ \E e \in ErrorStrings : _on_error(e)
    /\ CloseChannel
    /\ UNCHANGED <<svcVars, recognition_result, recognition_complete, mainVars,
                   sent_by_server, sendVars, histVars, now>>

(***************************************************************************)
(* The recognition service.                                                *)
(***************************************************************************)
ServerSend ==
    /\ UNCHANGED <<cmdVars, procVars, requests, appVars>>
    /\ ws = "open"
    /\ sent_by_server < MaxMsgs
    /\ Len(inbox) < MaxInFlight
    /\ \A i \in 1..Len(inbox) : inbox[i].kind # "close"
    /\ \E m \in Envelopes : inbox' = Append(inbox, m)
    /\ sent_by_server' = sent_by_server + 1
    /\ UNCHANGED <<svcVars, sessVars, mainVars, ws, sendVars, histVars, now>>

ServerClose ==
    /\ UNCHANGED <<cmdVars, procVars, requests, appVars>>
    /\ ws = "open"
    /\ \A i \in 1..Len(inbox) : inbox[i].kind # "close"
    /\ inbox' = Append(inbox, CloseFrame)
    /\ UNCHANGED <<svcVars, sessVars, mainVars, ws, sent_by_server, sendVars,
                   histVars, now>>


(***************************************************************************)
(* The send thread: run() of _on_open, lines 320-402.                      *)
(***************************************************************************)
Frame(st, b) == [status |-> st, off |-> b[1], end |-> b[2]]

\* ws.send(json.dumps(d)) at position `next`: the frame is handed to the
\* channel, or the channel is closed and the exception ends the thread.
\* (Mutant: the frame goes out whatever the state of the channel.)
Send_IgnoresClosed(frame, next) ==
    frames' = Append(frames, frame) /\ pcSend' = next
Send(frame, next) ==
    IF ws = "open"
    THEN frames' = Append(frames, frame) /\ pcSend' = next
    ELSE frames' = frames /\ pcSend' = "dead"

\* Line 328 is false on entry or after a sleep: run() returns.
SenderExit ==
    /\ UNCHANGED <<cmdVars, procVars, requests, appVars>>
    /\ pcSend = "loop"
    /\ ~(audio_offset < pcm_audio_data)
    /\ pcSend' = "done"
    /\ UNCHANGED <<status, audio_offset, buf, frames>>
    /\ UNCHANGED <<svcVars, sessVars, mainVars, chanVars, histVars, now>>

\* Lines 328-378 and 381, 402: one chunk is read and sent as the first or
\* a continue frame.
SenderChunk ==
    /\ UNCHANGED <<cmdVars, procVars, requests, appVars>>
    /\ pcSend = "loop"
    /\ audio_offset < pcm_audio_data
    /\ LET end_offset == Min(audio_offset + frame_size, pcm_audio_data)
           chunk == <<audio_offset, end_offset>>
           st == IF chunk[1] = chunk[2] THEN STATUS_LAST_FRAME ELSE status
           next == IF end_offset >= pcm_audio_data THEN "last" ELSE "loop"
       IN  /\ buf' = chunk
           /\ audio_offset' = end_offset
           /\ IF st = STATUS_FIRST_FRAME
              THEN /\ Send(Frame(0, chunk), next)
                   /\ status' = IF ws = "open" THEN STATUS_CONTINUE_FRAME ELSE st
              ELSE IF st = STATUS_CONTINUE_FRAME
              THEN Send(Frame(1, chunk), next) /\ status' = st
              ELSE frames' = frames /\ pcSend' = next /\ status' = st
    /\ UNCHANGED <<svcVars, sessVars, mainVars, chanVars, histVars, now>>

\* Lines 381-399: the end of the buffer was reached; the last frame is
\* built from the same buf and sent, and the loop is left.
SenderLast ==
    /\ UNCHANGED <<cmdVars, procVars, requests, appVars>>
    /\ pcSend = "last"
    /\ Send(Frame(2, buf), "done")
    /\ UNCHANGED <<status, audio_offset, buf>>
    /\ UNCHANGED <<svcVars, sessVars, mainVars, chanVars, histVars, now>>

(***************************************************************************)
(* transcribe_audio after run_forever(): lines 242-266.                    *)
(***************************************************************************)
\* run_forever() returns once the connection is closed; line 244.
RunForeverReturns ==
    /\ UNCHANGED <<cmdVars, procVars, requests, appVars>>
    /\ pcMain = "run_forever"
    /\ ws = "closed"
    /\ pcMain' = "poll"
    /\ start_time' = now
    /\ UNCHANGED <<pcm_audio_data, ret, calls>>
    /\ UNCHANGED <<svcVars, sessVars, chanVars, sendVars, histVars, now>>

\* Line 245.
\* (Mutant: the loop is never entered.)
Waiting_Never == FALSE
Waiting == ~recognition_complete /\ ~Truthy(recognition_error)
\* Line 246.
TimedOut == now - start_time > timeout

\* Lines 245, 254-266: the loop is left and the result returned.
PollExit ==
    /\ UNCHANGED <<cmdVars, procVars, requests, appVars>>
    /\ pcMain = "poll"
    /\ ~Waiting
    /\ ret' = IF Truthy(recognition_error)
              THEN Failed(recognition_error)
              ELSE Success(Strip(recognition_result))
    /\ pcMain' = "returned"
    /\ UNCHANGED <<pcm_audio_data, start_time, calls>>
    /\ UNCHANGED <<svcVars, sessVars, chanVars, sendVars, histVars, now>>

\* Lines 246-251.
PollTimeout ==
    /\ UNCHANGED <<cmdVars, procVars, requests, appVars>>
    /\ pcMain = "poll"
    /\ Waiting
    /\ TimedOut
    /\ ret' = RecognitionTimeout
    /\ pcMain' = "returned"
    /\ UNCHANGED <<pcm_audio_data, start_time, calls>>
    /\ UNCHANGED <<svcVars, sessVars, chanVars, sendVars, histVars, now>>

\* Time passes (line 252 sleeps 0.1 s, far less than a tick: the poll loop
\* reacts before the next tick).
Tick ==
    /\ UNCHANGED <<cmdVars, procVars, requests, appVars>>
    /\ pcMain \in {"run_forever", "poll"}
    /\ pcMain = "run_forever" => now < MaxTicks * TickStep
    /\ pcMain = "poll" => Waiting /\ ~TimedOut
    /\ now' = now + TickStep
    /\ UNCHANGED <<svcVars, sessVars, mainVars, chanVars, sendVars, histVars>>

VoiceNext ==
    \/ Transcribe
    \/ Connect
    \/ Dispatch
    \/ TransportError
    \/ ServerSend
    \/ ServerClose
    \/ SenderExit
    \/ SenderChunk
    \/ SenderLast
    \/ RunForeverReturns
    \/ PollExit
    \/ PollTimeout
    \/ Tick

(***************************************************************************)
(* VoiceCommandProcessor: the rule-based fallback, lines 503-672.          *)
(* A text is a sequence of one-character tokens: an ASCII character is     *)
(* itself, "uXXXX" is the character with that code point.                  *)
(***************************************************************************)
\* Texts handed to the processor: the concatenations of up to MaxPhrases
\* phrases, and the two sentences of the specification.
MaxPhrases == 3

\* line 527
create_plan_keywords ==
    << <<"u521B", "u5EFA">>,  \* 创建
       <<"u5236", "u5B9A">>,  \* 制定
       <<"u89C4", "u5212">>,  \* 规划
       <<"u5B89", "u6392">>,  \* 安排
       <<"u8BA1", "u5212">>,  \* 计划
       <<"u65C5", "u6E38">>,  \* 旅游
       <<"u65C5", "u884C">>,  \* 旅行
       <<"u53BB">> >>  \* 去

\* line 528
modify_plan_keywords ==
    << <<"u4FEE", "u6539">>,  \* 修改
       <<"u66F4", "u6539">>,  \* 更改
       <<"u8C03", "u6574">>,  \* 调整
       <<"u53D8", "u66F4">>,  \* 变更
       <<"u6539", "u53D8">> >>  \* 改变

\* line 529
add_expense_keywords ==
    << <<"u82B1", "u8D39">>,  \* 花费
       <<"u8D39", "u7528">>,  \* 费用
       <<"u5F00", "u9500">>,  \* 开销
       <<"u652F", "u51FA">>,  \* 支出
       <<"u6D88", "u8D39">>,  \* 消费
       <<"u4E70">>,  \* 买
       <<"u4ED8">>,  \* 付
       <<"u82B1", "u4E86">>,  \* 花了
       <<"u5143">> >>  \* 元

\* line 530
query_plan_keywords ==
    << <<"u67E5", "u770B">>,  \* 查看
       <<"u663E", "u793A">>,  \* 显示
       <<"u544A", "u8BC9", "u6211">>,  \* 告诉我
       <<"u4EC0", "u4E48", "u65F6", "u5019">>,  \* 什么时候
       <<"u54EA", "u91CC">>,  \* 哪里
       <<"u600E", "u4E48">> >>  \* 怎么

\* line 531
general_keywords ==
    << <<"u4F60", "u597D">>,  \* 你好
       <<"u8C22", "u8C22">>,  \* 谢谢
       <<"u518D", "u89C1">>,  \* 再见
       <<"u5E2E", "u52A9">> >>  \* 帮助

\* line 551
classify_destinations ==
    << <<"u5317", "u4EAC">>,  \* 北京
       <<"u4E0A", "u6D77">>,  \* 上海
       <<"u5E7F", "u5DDE">>,  \* 广州
       <<"u6DF1", "u5733">>,  \* 深圳
       <<"u676D", "u5DDE">>,  \* 杭州
       <<"u6210", "u90FD">>,  \* 成都
       <<"u897F", "u5B89">>,  \* 西安
       <<"u5357", "u4EAC">>,  \* 南京
       <<"u65E5", "u672C">>,  \* 日本
       <<"u97E9", "u56FD">>,  \* 韩国
       <<"u6CF0", "u56FD">> >>  \* 泰国

\* line 552
travel_words ==
    << <<"u65C5", "u6E38">>,  \* 旅游
       <<"u65C5", "u884C">>,  \* 旅行
       <<"u53BB">>,  \* 去
       <<"u73A9">> >>  \* 玩

\* line 569
extract_destinations ==
    << <<"u5317", "u4EAC">>,  \* 北京
       <<"u4E0A", "u6D77">>,  \* 上海
       <<"u5E7F", "u5DDE">>,  \* 广州
       <<"u6DF1", "u5733">>,  \* 深圳
       <<"u676D", "u5DDE">>,  \* 杭州
       <<"u6210", "u90FD">>,  \* 成都
       <<"u897F", "u5B89">>,  \* 西安
       <<"u5357", "u4EAC">> >>  \* 南京

\* lines 613-633, in the dict's (insertion) order
categories ==
    << [keyword |-> <<"u95E8", "u7968">>, category |-> "entertainment"],  \* 门票
       [keyword |-> <<"u666F", "u70B9">>, category |-> "entertainment"],  \* 景点
       [keyword |-> <<"u6E38", "u4E50">>, category |-> "entertainment"],  \* 游乐
       [keyword |-> <<"u73A9">>, category |-> "entertainment"],  \* 玩
       [keyword |-> <<"u535A", "u7269", "u9986">>, category |-> "entertainment"],  \* 博物馆
       [keyword |-> <<"u516C", "u56ED">>, category |-> "entertainment"],  \* 公园
       [keyword |-> <<"u6F14", "u51FA">>, category |-> "entertainment"],  \* 演出
       [keyword |-> <<"u7535", "u5F71">>, category |-> "entertainment"],  \* 电影
       [keyword |-> <<"u5403">>, category |-> "food"],  \* 吃
       [keyword |-> <<"u9910">>, category |-> "food"],  \* 餐
       [keyword |-> <<"u996D">>, category |-> "food"],  \* 饭
       [keyword |-> <<"u559D">>, category |-> "food"],  \* 喝
       [keyword |-> <<"u8336">>, category |-> "food"],  \* 茶
       [keyword |-> <<"u5496", "u5561">>, category |-> "food"],  \* 咖啡
       [keyword |-> <<"u65E9", "u9910">>, category |-> "food"],  \* 早餐
       [keyword |-> <<"u5348", "u9910">>, category |-> "food"],  \* 午餐
       [keyword |-> <<"u665A", "u9910">>, category |-> "food"],  \* 晚餐
       [keyword |-> <<"u591C", "u5BB5">>, category |-> "food"],  \* 夜宵
       [keyword |-> <<"u5C0F", "u5403">>, category |-> "food"],  \* 小吃
       [keyword |-> <<"u4F4F">>, category |-> "accommodation"],  \* 住
       [keyword |-> <<"u9152", "u5E97">>, category |-> "accommodation"],  \* 酒店
       [keyword |-> <<"u5BBE", "u9986">>, category |-> "accommodation"],  \* 宾馆
       [keyword |-> <<"u6C11", "u5BBF">>, category |-> "accommodation"],  \* 民宿
       [keyword |-> <<"u65C5", "u5E97">>, category |-> "accommodation"],  \* 旅店
       [keyword |-> <<"u5BA2", "u6808">>, category |-> "accommodation"],  \* 客栈
       [keyword |-> <<"u8F66">>, category |-> "transportation"],  \* 车
       [keyword |-> <<"u5730", "u94C1">>, category |-> "transportation"],  \* 地铁
       [keyword |-> <<"u516C", "u4EA4">>, category |-> "transportation"],  \* 公交
       [keyword |-> <<"u51FA", "u79DF">>, category |-> "transportation"],  \* 出租
       [keyword |-> <<"u706B", "u8F66">>, category |-> "transportation"],  \* 火车
       [keyword |-> <<"u98DE", "u673A">>, category |-> "transportation"],  \* 飞机
       [keyword |-> <<"u8239">>, category |-> "transportation"],  \* 船
       [keyword |-> <<"u7968">>, category |-> "transportation"],  \* 票
       [keyword |-> <<"u4E70">>, category |-> "shopping"],  \* 买
       [keyword |-> <<"u8D2D">>, category |-> "shopping"],  \* 购
       [keyword |-> <<"u5546", "u5E97">>, category |-> "shopping"],  \* 商店
       [keyword |-> <<"u8D85", "u5E02">>, category |-> "shopping"],  \* 超市
       [keyword |-> <<"u7EAA", "u5FF5", "u54C1">>, category |-> "shopping"],  \* 纪念品
       [keyword |-> <<"u793C", "u54C1">>, category |-> "shopping"] >>  \* 礼品

Yuan == "u5143"  \* 元
Tian == "u5929"  \* 天
Kuai == "u5757"  \* 块
HuaLe == <<"u82B1", "u4E86">>  \* 花了
FeiYong == <<"u8D39", "u7528">>  \* 费用

\* "我想去北京玩3天，预算2000元"
TextBeijing ==
    <<"u6211", "u60F3", "u53BB", "u5317", "u4EAC", "u73A9", "3", "u5929", "uFF0C", "u9884", "u7B97", "2", "0", "0", "0", "u5143">>

\* "北京玩买花了"
TextTie ==
    <<"u5317", "u4EAC", "u73A9", "u4E70", "u82B1", "u4E86">>

\* "花了30买了6元"
TextOrder ==
    <<"u82B1", "u4E86", "3", "0", "u4E70", "u4E86", "6", "u5143">>

\* "花了500" and "花了100"
Text500 == <<"u82B1", "u4E86", "5", "0", "0">>
Text100 == <<"u82B1", "u4E86", "1", "0", "0">>

\* "我花了60元吃饭"
TextMeal ==
    <<"u6211", "u82B1", "u4E86", "6", "0", "u5143", "u5403", "u996D">>


Newline == "\n"
DigitChars == <<"0", "1", "2", "3", "4", "5", "6", "7", "8", "9">>
IsDigit(c) == \E k \in 1..10 : DigitChars[k] = c
DigitVal(c) == (CHOOSE k \in 1..10 : DigitChars[k] = c) - 1

\* str.lower(): only cased letters change.
LowerChar(c) == IF c = "A" THEN "a" ELSE IF c = "B" THEN "b" ELSE c
Lower(text) == [k \in 1..Len(text) |-> LowerChar(text[k])]

\* keyword in text
Contains(text, kw) ==
    \E k \in 1..(Len(text) - Len(kw) + 1) : SubSeq(text, k, k + Len(kw) - 1) = kw

\* text[k], or a token no text holds when k is past the end
At(text, k) == IF k \in 1..Len(text) THEN text[k] ELSE "EOT"

\* int(digits)
RECURSIVE IntOf(_)
IntOf(ds) ==
    IF ds = <<>> THEN 0
    ELSE IntOf(SubSeq(ds, 1, Len(ds) - 1)) * 10 + DigitVal(ds[Len(ds)])

RECURSIVE Pow10(_)
Pow10(k) == IF k = 0 THEN 1 ELSE 10 * Pow10(k - 1)

\* float(s) for s matching \d+(?:\.\d+)?, as the fraction num/den in
\* lowest decimal form (trailing zeros of the fraction dropped), so that
\* equal floats are equal values.
RECURSIVE DropZeros(_)
DropZeros(ds) ==
    IF ds # <<>> /\ ds[Len(ds)] = "0" THEN DropZeros(SubSeq(ds, 1, Len(ds) - 1)) ELSE ds
Float(s) ==
    LET dots == {k \in 1..Len(s) : s[k] = "."}
        dot == IF dots = {} THEN Len(s) + 1 ELSE CHOOSE k \in dots : TRUE
        whole == SubSeq(s, 1, dot - 1)
        frac == DropZeros(SubSeq(s, dot + 1, Len(s)))
    IN  [num |-> IntOf(whole) * Pow10(Len(frac)) + IntOf(frac), den |-> Pow10(Len(frac))]
FloatOfInt(n) == [num |-> n, den |-> 1]
FloatLess(a, b) == a.num * b.den < b.num * a.den

\* The index after the longest run of digits that starts at k (\d+).
RECURSIVE RunEnd(_, _)
RunEnd(text, k) == IF IsDigit(At(text, k)) THEN RunEnd(text, k + 1) ELSE k
\* The index after the longest \d+(?:\.\d+)? that starts at digit k.
NumEnd(text, k) ==
    LET e == RunEnd(text, k)
    IN  IF At(text, e) = "." /\ IsDigit(At(text, e + 1)) THEN RunEnd(text, e + 1) ELSE e

\* re.search(r'\d+.*<c>', text): a digit, then any characters but a
\* newline, then c.
SearchDigitsAnyThen(text, c) ==
    \E k \in 1..Len(text) : \E j \in (k + 1)..Len(text) :
        /\ IsDigit(text[k])
        /\ text[j] = c
        /\ \A m \in (k + 1)..(j - 1) : text[m] # Newline

\* re.search(r'(\d+)<c>', text).group(1), or <<>> when there is no match:
\* the leftmost digit whose run of digits is followed by c.
SearchDigitsThen(text, c) ==
    LET starts == {k \in 1..Len(text) : IsDigit(text[k]) /\ At(text, RunEnd(text, k)) = c}
    IN  IF starts = {} THEN <<>>
        ELSE LET k == CHOOSE x \in starts : \A y \in starts : x <= y
             IN  SubSeq(text, k, RunEnd(text, k) - 1)

\* Where the group of (\d+(?:\.\d+)?)<c> ends when the pattern matches at
\* k (the index after the group), or 0 when it does not match there.
NumThenAt(text, k, c) ==
    IF ~IsDigit(At(text, k)) THEN 0
    ELSE IF At(text, NumEnd(text, k)) = c THEN NumEnd(text, k)
    ELSE IF At(text, RunEnd(text, k)) = c THEN RunEnd(text, k)
    ELSE 0

\* (Mutant: the pattern is (\d(?:\.\d+)?)<c>, one digit before the point.)
FirstNumThen_OneDigit(text, c) ==
    LET EndAt(k) == IF At(text, k + 1) = c THEN k + 1
                    ELSE IF /\ At(text, k + 1) = "."
                            /\ IsDigit(At(text, k + 2))
                            /\ At(text, RunEnd(text, k + 2)) = c
                    THEN RunEnd(text, k + 2)
                    ELSE 0
        starts == {k \in 1..Len(text) : IsDigit(text[k]) /\ EndAt(k) # 0}
    IN  IF starts = {} THEN <<>>
        ELSE LET k == CHOOSE x \in starts : \A y \in starts : x <= y
             IN  <<SubSeq(text, k, EndAt(k) - 1)>>

\* re.findall(r'(\d+(?:\.\d+)?)<c>', text)[:1]: the group of the leftmost
\* match, as a list of at most one string.
FirstNumThen(text, c) ==
    LET starts == {k \in 1..Len(text) : NumThenAt(text, k, c) # 0}
    IN  IF starts = {} THEN <<>>
        ELSE LET k == CHOOSE x \in starts : \A y \in starts : x <= y
             IN  <<SubSeq(text, k, NumThenAt(text, k, c) - 1)>>

\* re.findall(r'<prefix>(\d+(?:\.\d+)?)', text)[:1]
FirstNumAfter(text, prefix) ==
    LET n == Len(prefix)
        starts == {k \in 1..(Len(text) - n + 1) :
                      /\ SubSeq(text, k, k + n - 1) = prefix
                      /\ IsDigit(At(text, k + n))}
    IN  IF starts = {} THEN <<>>
        ELSE LET k == CHOOSE x \in starts : \A y \in starts : x <= y
             IN  <<SubSeq(text, k + n, NumEnd(text, k + n) - 1)>>

\* re.findall(r'(\d+(?:\.\d+)?)', text), scanning from index k.
RECURSIVE AllNumbers(_, _)
AllNumbers(text, k) ==
    IF k > Len(text) THEN <<>>
    ELSE IF IsDigit(text[k])
    THEN <<SubSeq(text, k, NumEnd(text, k) - 1)>> \o AllNumbers(text, NumEnd(text, k))
    ELSE AllNumbers(text, k + 1)

\* max(matches, key=float): the first match of the largest value.
MaxByFloat(matches) ==
    LET best == CHOOSE k \in 1..Len(matches) :
                    /\ \A j \in 1..Len(matches) : ~FloatLess(Float(matches[k]), Float(matches[j]))
                    /\ \A j \in 1..(k - 1) : FloatLess(Float(matches[j]), Float(matches[k]))
    IN  matches[best]

(***************************************************************************)
(* _classify_intent_rule_based, lines 521-560.  intent_scores is a dict:   *)
(* a sequence of entries in insertion order.                               *)
(***************************************************************************)
intent_keywords ==
    << [intent |-> "create_plan", keywords |-> create_plan_keywords],
       [intent |-> "modify_plan", keywords |-> modify_plan_keywords],
       [intent |-> "add_expense", keywords |-> add_expense_keywords],
       [intent |-> "query_plan", keywords |-> query_plan_keywords],
       [intent |-> "general", keywords |-> general_keywords] >>

HasKey(d, key) == \E k \in 1..Len(d) : d[k].key = key
\* d.get(key, 0)
GetScore(d, key) ==
    IF HasKey(d, key) THEN d[CHOOSE k \in 1..Len(d) : d[k].key = key].val ELSE 0
\* d[key] = val: an existing key keeps its place, a new key goes last.
SetScore(d, key, val) ==
    IF HasKey(d, key)
    THEN [k \in 1..Len(d) |-> IF d[k].key = key THEN [key |-> key, val |-> val] ELSE d[k]]
    ELSE Append(d, [key |-> key, val |-> val])

\* Lines 537-543.
KeywordHits(text_lower, keywords) ==
    Cardinality({k \in 1..Len(keywords) : Contains(text_lower, keywords[k])})
RECURSIVE KeywordScores(_, _)
KeywordScores(text_lower, k) ==
    IF k > Len(intent_keywords) THEN <<>>
    ELSE LET score == KeywordHits(text_lower, intent_keywords[k].keywords)
         IN  (IF score > 0
              THEN <<[key |-> intent_keywords[k].intent, val |-> score]>>
              ELSE <<>>) \o KeywordScores(text_lower, k + 1)

\* Lines 547-548.
ExpenseBonus(text_lower, scores) ==
    IF SearchDigitsAnyThen(text_lower, Yuan)
    THEN SetScore(scores, "add_expense", GetScore(scores, "add_expense") + 3)
    ELSE scores

\* Lines 551-554.
PlanBonus(text_lower, scores) ==
    IF /\ \E k \in 1..Len(classify_destinations) : Contains(text_lower, classify_destinations[k])
       /\ \E k \in 1..Len(travel_words) : Contains(text_lower, travel_words[k])
    THEN SetScore(scores, "create_plan", GetScore(scores, "create_plan") + 2)
    ELSE scores

\* max(intent_scores, key=intent_scores.get): the first key of the
\* largest score, in the dict's order.
MaxKey(d) ==
    d[CHOOSE k \in 1..Len(d) :
          /\ \A j \in 1..Len(d) : d[j].val <= d[k].val
          /\ \A j \in 1..(k - 1) : d[j].val < d[k].val].key

_classify_intent_rule_based(text) ==
    LET text_lower == Lower(text)
        intent_scores ==
            PlanBonus(text_lower, ExpenseBonus(text_lower, KeywordScores(text_lower, 1)))
    IN  IF intent_scores = <<>> THEN "general" ELSE MaxKey(intent_scores)


(***************************************************************************)
(* _extract_entities_rule_based, lines 562-650.  entities is a dict: a     *)
(* function from its keys to their values.                                 *)
(***************************************************************************)
NoEntities == [k \in {} |-> 0]
Put(entities, key, val) == [k \in (DOMAIN entities) \cup {key} |->
                               IF k = key THEN val ELSE entities[k]]

\* Lines 569-573: the first destination of the list that is in the text.
ExtractDestination(text, entities) ==
    LET hits == {k \in 1..Len(extract_destinations) : Contains(text, extract_destinations[k])}
    IN  IF hits = {} THEN entities
        ELSE Put(entities, "destination",
                 extract_destinations[CHOOSE k \in hits : \A j \in hits : k <= j])

\* Lines 577-579.
ExtractDays(text, entities) ==
    LET days_match == SearchDigitsThen(text, Tian)
    IN  IF days_match = <<>> THEN entities ELSE Put(entities, "days", IntOf(days_match))

\* Lines 582-584.
ExtractBudget(text, entities) ==
    LET budget_match == SearchDigitsThen(text, Yuan)
    IN  IF budget_match = <<>> THEN entities ELSE Put(entities, "budget", IntOf(budget_match))

\* (Mutant: the second pattern of the list is tried before the first.)
AmountMatches_SpentFirst(text) ==
    IF FirstNumAfter(text, HuaLe) # <<>> THEN FirstNumAfter(text, HuaLe)
    ELSE IF FirstNumThen(text, Yuan) # <<>> THEN FirstNumThen(text, Yuan)
    ELSE IF FirstNumAfter(text, FeiYong) # <<>> THEN FirstNumAfter(text, FeiYong)
    ELSE FirstNumThen(text, Kuai)

\* Lines 590-603: the matches of the first pattern, in the list's order,
\* that matches at all.
AmountMatches(text) ==
    IF FirstNumThen(text, Yuan) # <<>> THEN FirstNumThen(text, Yuan)
    ELSE IF FirstNumAfter(text, HuaLe) # <<>> THEN FirstNumAfter(text, HuaLe)
    ELSE IF FirstNumAfter(text, FeiYong) # <<>> THEN FirstNumAfter(text, FeiYong)
    ELSE FirstNumThen(text, Kuai)

\* Lines 597-610.
ExtractAmount(text, entities) ==
    IF AmountMatches(text) # <<>>
    THEN Put(entities, "amount", Float(AmountMatches(text)[1]))
    ELSE IF AllNumbers(text, 1) # <<>>
    THEN Put(entities, "amount", Float(MaxByFloat(AllNumbers(text, 1))))
    ELSE entities

\* (Mutant: the loop does not break, the last keyword found wins.)
ExtractCategory_LastHit(text, entities) ==
    LET hits == {k \in 1..Len(categories) : Contains(text, categories[k].keyword)}
    IN  IF hits = {} THEN entities
        ELSE Put(entities, "category",
                 categories[CHOOSE k \in hits : \A j \in hits : k >= j].category)

\* Lines 635-638: the first keyword of the table that is in the text.
ExtractCategory(text, entities) ==
    LET hits == {k \in 1..Len(categories) : Contains(text, categories[k].keyword)}
    IN  IF hits = {} THEN entities
        ELSE Put(entities, "category",
                 categories[CHOOSE k \in hits : \A j \in hits : k <= j].category)

\* (Mutant: the thresholds are inclusive.)
InferCategory_Inclusive(entities) ==
    IF "category" \notin DOMAIN entities /\ "amount" \in DOMAIN entities
    THEN LET amount == entities["amount"]
         IN  IF ~FloatLess(amount, FloatOfInt(500))
             THEN Put(entities, "category", "accommodation")
             ELSE IF ~FloatLess(amount, FloatOfInt(100))
             THEN Put(entities, "category", "entertainment")
             ELSE Put(entities, "category", "food")
    ELSE entities

\* Lines 641-648.
InferCategory(entities) ==
    IF "category" \notin DOMAIN entities /\ "amount" \in DOMAIN entities
    THEN LET amount == entities["amount"]
         IN  IF FloatLess(FloatOfInt(500), amount)
             THEN Put(entities, "category", "accommodation")
             ELSE IF FloatLess(FloatOfInt(100), amount)
             THEN Put(entities, "category", "entertainment")
             ELSE Put(entities, "category", "food")
    ELSE entities

_extract_entities_rule_based(text, intent) ==
    IF intent = "create_plan"
    THEN ExtractBudget(text, ExtractDays(text, ExtractDestination(text, NoEntities)))
    ELSE IF intent = "add_expense"
    THEN InferCategory(ExtractCategory(text, ExtractAmount(text, NoEntities)))
    ELSE NoEntities

(***************************************************************************)
(* _generate_response, lines 652-672: the template and what it            *)
(* interpolates (entities.get(key, default)).                              *)
(***************************************************************************)
EntityOr(entities, key, default) ==
    IF key \in DOMAIN entities THEN <<key, entities[key]>> ELSE <<default>>

_generate_response_UsesContext(intent, entities, ctx) ==
    <<intent, ctx>>

_generate_response(intent, entities, ctx) ==
    IF intent = "create_plan"
    THEN <<"create_plan", EntityOr(entities, "destination", "default destination"),
           EntityOr(entities, "days", "default days"),
           EntityOr(entities, "budget", "default budget")>>
    ELSE IF intent = "modify_plan" THEN <<"modify_plan">>
    ELSE IF intent = "add_expense"
    THEN <<"add_expense", EntityOr(entities, "category", "default category"),
           EntityOr(entities, "amount", "default amount")>>
    ELSE IF intent = "query_plan" THEN <<"query_plan">>
    ELSE <<"general">>

\* Lines 503-519.  The confidence 0.75 is held in hundredths.
RuleConfidence == 75
_fallback_rule_based_processing(text, ctx) ==
    LET intent == _classify_intent_rule_based(text)
        entities == _extract_entities_rule_based(text, intent)
        response == _generate_response(intent, entities, ctx)
    IN  [intent |-> intent, confidence |-> RuleConfidence,
         entities |-> entities, response |-> response]

(***************************************************************************)
(* The processor applied to one transcript.                                *)
(***************************************************************************)
Phrases ==
    { <<"u6211">>,            \* 我
      HuaLe,                  \* 花了
      <<"6">>,
      <<"3", "0">>,
      <<".">>,
      <<Yuan>>,               \* 元
      <<Kuai>>,               \* 块
      <<"u5403">>,            \* 吃
      <<"u53BB">>,            \* 去
      <<"u73A9">>,            \* 玩
      <<"u5317", "u4EAC">>,   \* 北京
      <<"u65E5", "u672C">>,   \* 日本
      <<"3", Tian>>,          \* 3天
      <<"u95E8", "u7968">>,   \* 门票
      <<"u8F66">> }           \* 车

PhraseTexts ==
    UNION {{ConcatAll(ps) : ps \in [1..n -> Phrases]} : n \in 0..MaxPhrases}
NamedTexts == {TextBeijing, TextMeal, TextTie, TextOrder, Text500, Text100}
Texts == PhraseTexts \cup NamedTexts
Contexts == {"no context", "plan context"}
NoCommand == [intent |-> "", confidence |-> 0, entities |-> NoEntities, response |-> <<>>]

CmdIdle ==
    /\ transcription = <<>>
    /\ context = "no context"
    /\ cmdPc = "idle"
    /\ command = NoCommand

CmdInit ==
    /\ transcription \in Texts
    /\ context \in Contexts
    /\ cmdPc = "called"
    /\ command = NoCommand

\* process_command's fallback, line 452.
FallbackProcessing ==
    /\ cmdPc = "called"
    /\ command' = _fallback_rule_based_processing(transcription, context)
    /\ cmdPc' = "returned"
    /\ UNCHANGED <<transcription, context>>
    /\ UNCHANGED <<voiceVars, procVars, requests, appVars>>

CmdNext == FallbackProcessing

(***************************************************************************)
(* process_command, lines 424-452, and _analyze_with_llm, lines 454-501.   *)
(* The LLM collaborator is the environment: `llm` says whether             *)
(* LLMService(user=...) raises and what llm_service.chat(...) does.        *)
(***************************************************************************)
\* Phrases of the transcripts process_command is called with.
MaxLlmPhrases == 1

\* dict.get(key, default) on a parsed JSON object: a key is absent or has
\* a value.
Absent(d) == [has |-> FALSE, val |-> d]
Present(v) == [has |-> TRUE, val |-> v]
Get(field, default) == IF field.has THEN field.val ELSE default

\* What json.loads yields for the replies considered: null, an array, a
\* number, a string, or an object with any of the four keys.  Intents and
\* confidences are whatever the model wrote (confidence in hundredths).
LlmIntents == {"add_expense", "dance"}
LlmConfidences == {50, 150}
LlmEntities == [k \in {"amount"} |-> FloatOfInt(60)]
JsonObjects ==
    [type : {"object"},
     intent : {Absent("")} \cup {Present(i) : i \in LlmIntents},
     confidence : {Absent(0)} \cup {Present(c) : c \in LlmConfidences},
     entities : {Absent(NoEntities), Present(LlmEntities)},
     response : {Absent(<<>>), Present(<<"llm response">>)}]
JsonOther(t) ==
    [type |-> t, intent |-> Absent(""), confidence |-> Absent(0),
     entities |-> Absent(NoEntities), response |-> Absent(<<>>)]
JsonValues == JsonObjects \cup {JsonOther(t) : t \in {"null", "array", "number", "string"}}

\* What llm_service.chat returns or does: it raises, returns None, "",
\* only whitespace, text that is not JSON, or a JSON document.
ChatOther(k) == [kind |-> k, value |-> JsonOther("null")]
ChatOutcomes ==
    {ChatOther(k) : k \in {"raises", "none", "empty", "blank", "text"}}
        \cup [kind : {"json"}, value : JsonValues]
LlmBehaviours == [init : {"ok", "raises"}, chat : ChatOutcomes]
NoLlm == [init |-> "ok", chat |-> ChatOther("none")]

\* Optional[Dict]: None or a command.
NoResult == [some |-> FALSE, value |-> NoCommand]
Result(cmd) == [some |-> TRUE, value |-> cmd]

\* Lines 457-463: the service is created on first use, if there is a user.
InitialisesLlm == llm_service = "None" /\ user # "none"
LlmServiceAfter ==
    IF InitialisesLlm /\ llm.init = "ok" THEN "service" ELSE llm_service

\* Lines 489-496.
complete_result(result) ==
    [intent |-> Get(result.intent, "unknown"),
     confidence |-> Get(result.confidence, 90),
     entities |-> Get(result.entities, NoEntities),
     response |-> Get(result.response, <<"default response">>)]

\* (Mutant: a reply that cannot be used yields the default result.)
ParseReply_DefaultsOnFailure(reply) ==
    IF reply.kind = "json" /\ reply.value.type = "object"
    THEN Result(complete_result(reply.value))
    ELSE Result(complete_result(JsonOther("object")))

\* Lines 482-501: `if response:` is false for None and ""; json.loads
\* raises on text that is not JSON (the stripped blank reply included);
\* result.get raises on a value that is not an object; every exception
\* is caught and None returned.
ParseReply(reply) ==
    IF reply.kind \in {"raises", "none", "empty"} THEN NoResult
    ELSE IF reply.kind \in {"blank", "text"} THEN NoResult
    ELSE IF reply.value.type # "object" THEN NoResult
    ELSE Result(complete_result(reply.value))

\* Lines 454-501.
_analyze_with_llm ==
    IF InitialisesLlm /\ llm.init = "raises" THEN NoResult
    ELSE IF LlmServiceAfter = "None" THEN NoResult
    ELSE ParseReply(llm.chat)

\* Lines 435-441.
UnknownCommand ==
    [intent |-> "unknown", confidence |-> 0, entities |-> NoEntities,
     response |-> <<"unknown">>]

\* Lines 424-452.  A result of _analyze_with_llm is a dict of four keys
\* and so truthy.
process_command(text, ctx) ==
    IF text = <<>> THEN UnknownCommand
    ELSE IF _analyze_with_llm.some THEN _analyze_with_llm.value
    ELSE _fallback_rule_based_processing(text, ctx)

LlmPhraseTexts ==
    UNION {{ConcatAll(ps) : ps \in [1..n -> Phrases]} : n \in 0..MaxLlmPhrases}
LlmTexts == LlmPhraseTexts \cup NamedTexts

ProcInit ==
    /\ transcription \in LlmTexts
    /\ context \in Contexts
    /\ cmdPc = "called"
    /\ command = NoCommand
    /\ user \in {"none", "user"}
    /\ llm_service \in {"None", "service"}
    /\ llm_service = "service" => user = "user"
    /\ llm \in LlmBehaviours

ProcessCommand ==
    /\ cmdPc = "called"
    /\ command' = process_command(transcription, context)
    /\ llm_service' = IF transcription = <<>> THEN llm_service ELSE LlmServiceAfter
    /\ cmdPc' = "returned"
    /\ UNCHANGED <<transcription, context, user, llm>>
    /\ UNCHANGED <<voiceVars, requests, appVars>>

ProcNext == ProcessCommand

(***************************************************************************)
(* Two transcribe_audio calls on one VoiceRecognitionService object that   *)
(* overlap in time.  Each call runs on its own thread, has its own         *)
(* WebSocketApp and its own locals; recognition_result,                    *)
(* recognition_complete and recognition_error are fields of the object     *)
(* (lines 127-130) and so are the same for both.  The send threads write   *)
(* none of these fields and are not followed here.                         *)
(***************************************************************************)
\* Envelopes the service sends to one request.
MaxOverlapMsgs == 1

Requests == {1, 2}
NoRequest ==
    [pc |-> "idle", ws |-> "none", inbox |-> <<>>, received |-> <<>>,
     start_time |-> 0, ret |-> NoReturn]
RequestsIdle == requests = [r \in Requests |-> NoRequest]

\* Lines 209-240 for request r.
OverlapTranscribe(r) ==
    /\ requests[r].pc = "idle"
    /\ IF CredentialsMissing
       THEN /\ requests' = [requests EXCEPT ![r].pc = "returned",
                                             ![r].ret = NotConfigured]
            /\ UNCHANGED sessVars
       ELSE \/ /\ requests' = [requests EXCEPT ![r].pc = "returned",
                                                ![r].ret = Failed(StrOf("convert"))]
               /\ UNCHANGED sessVars
            \/ /\ ResetSession
               /\ requests' = [requests EXCEPT ![r].pc = "run_forever",
                                                ![r].ws = "connecting"]
    /\ UNCHANGED <<svcVars, mainVars, chanVars, sendVars, histVars, now, cmdVars, procVars, appVars>>

\* run_forever() of request r connects, or fails to and reports it.
OverlapConnect(r) ==
    /\ requests[r].pc = "run_forever"
    /\ requests[r].ws = "connecting"
    /\ \/ /\ requests' = [requests EXCEPT ![r].ws = "open"]
          /\ UNCHANGED sessVars
       \/ /\ \E e \in ErrorStrings : _on_error(e)
          /\ requests' = [requests EXCEPT ![r].ws = "closed"]
          /\ UNCHANGED <<recognition_result, recognition_complete>>
    /\ UNCHANGED <<svcVars, mainVars, chanVars, sendVars, histVars, now, cmdVars, procVars, appVars>>

\* The recognition service answers on the channel of request r.
OverlapServerSend(r) ==
    /\ requests[r].ws = "open"
    /\ requests[r].inbox = <<>>
    /\ Len(requests[r].received) < MaxOverlapMsgs
    /\ \E m \in Envelopes : requests' = [requests EXCEPT ![r].inbox = <<m>>]
    /\ UNCHANGED <<voiceVars, cmdVars, procVars, appVars>>

\* Lines 275-307, called by run_forever() of request r with ws the channel
\* of r: the handler writes the fields of the object and closes ws.
OverlapOnMessage(r, message) ==
    LET raises == message.kind = "malformed"
                      \/ (message.code = 0 /\ message.payload = BadPayload)
        closes == raises \/ message.code # 0 \/ message.status = 2
    IN  /\ requests' = [requests EXCEPT
               ![r].received = Append(@, message),
               ![r].inbox = IF closes THEN <<>> ELSE Tail(@),
               ![r].ws = IF closes THEN "closed" ELSE @]
        /\ IF raises
           THEN /\ recognition_error' = StrOf("exception")
                /\ UNCHANGED <<recognition_result, recognition_complete>>
           ELSE IF message.code # 0
           THEN /\ recognition_error' = RequestError(message.code)
                /\ UNCHANGED <<recognition_result, recognition_complete>>
           ELSE /\ AccumulatePayload(message)
                /\ recognition_complete' = (recognition_complete \/ message.status = 2)
                /\ UNCHANGED recognition_error

OverlapDispatch(r) ==
    /\ requests[r].pc = "run_forever"
    /\ requests[r].ws = "open"
    /\ requests[r].inbox # <<>>
    /\ OverlapOnMessage(r, Head(requests[r].inbox))
    /\ UNCHANGED <<svcVars, mainVars, chanVars, sendVars, histVars, now, cmdVars, procVars, appVars>>

\* Lines 240-244 for request r.
OverlapRunForeverReturns(r) ==
    /\ requests[r].pc = "run_forever"
    /\ requests[r].ws = "closed"
    /\ requests' = [requests EXCEPT ![r].pc = "poll", ![r].start_time = now]
    /\ UNCHANGED <<voiceVars, cmdVars, procVars, appVars>>

\* Lines 245, 254-266 for request r.
OverlapPollExit(r) ==
    /\ requests[r].pc = "poll"
    /\ ~Waiting
    /\ requests' = [requests EXCEPT
           ![r].pc = "returned",
           ![r].ret = IF Truthy(recognition_error)
                      THEN Failed(recognition_error)
                      ELSE Success(Strip(recognition_result))]
    /\ UNCHANGED <<voiceVars, cmdVars, procVars, appVars>>

\* Lines 246-251 for request r.
OverlapPollTimeout(r) ==
    /\ requests[r].pc = "poll"
    /\ Waiting
    /\ now - requests[r].start_time > timeout
    /\ requests' = [requests EXCEPT ![r].pc = "returned", ![r].ret = RecognitionTimeout]
    /\ UNCHANGED <<voiceVars, cmdVars, procVars, appVars>>

\* Time passes while a request is inside run_forever() or its poll loop.
OverlapTick ==
    /\ \E r \in Requests : requests[r].pc \in {"run_forever", "poll"}
    /\ now < MaxTicks * TickStep
    /\ \A r \in Requests :
           (requests[r].pc = "poll" /\ Waiting) => now - requests[r].start_time <= timeout
    /\ now' = now + TickStep
    /\ UNCHANGED <<svcVars, sessVars, mainVars, chanVars, sendVars, histVars>>
    /\ UNCHANGED <<cmdVars, procVars, requests, appVars>>

OverlapNext ==
    \/ \E r \in Requests : OverlapTranscribe(r)
    \/ \E r \in Requests : OverlapConnect(r)
    \/ \E r \in Requests : OverlapServerSend(r)
    \/ \E r \in Requests : OverlapDispatch(r)
    \/ \E r \in Requests : OverlapRunForeverReturns(r)
    \/ \E r \in Requests : OverlapPollExit(r)
    \/ \E r \in Requests : OverlapPollTimeout(r)
    \/ OverlapTick

(***************************************************************************)
(* The audio handed to transcribe_audio.  AudioFileManager's               *)
(* validate_audio_format (lines 700-719) refuses fewer bytes than a WAV    *)
(* header; transcribe_audio (lines 198-273) does not call it and hands     *)
(* the bytes to _convert_audio_to_pcm (lines 143-196), which tries the     *)
(* decoders whatever the length.                                           *)
(***************************************************************************)
MinHeaderLength == 44
validate_audio_format(n) == ~(n < MinHeaderLength)

AudioLengths == {0, MinHeaderLength - 1, MinHeaderLength}
ShortAudio == {n \in AudioLengths : ~validate_audio_format(n)}
\* Where the length is not the subject, the audio has a whole header.
AudioIdle == audio_data = MinHeaderLength

(***************************************************************************)
(* VoiceRecognitionService.__init__, lines 97-130: where the credentials   *)
(* come from.  A credential value is the name of the place it was read     *)
(* from, or "" when that place holds nothing (None or the empty string).   *)
(***************************************************************************)
Field(p) == {"", p}
Triples(p) == [app_id : Field(p), api_key : Field(p), api_secret : Field(p)]
NoTriple == [app_id |-> "", api_key |-> "", api_secret |-> ""]

\* x or y
Or(x, y) == IF x # "" THEN x ELSE y

\* The VoiceAPIKey record of the user (models.py 222-262): appid, and the
\* properties apikey and api_secret, which decrypt and may raise.
VoiceKeys ==
    {[exists |-> FALSE, decrypts |-> TRUE, fields |-> NoTriple]}
        \cup [exists : {TRUE}, decrypts : {TRUE}, fields : Triples("voice_key")]
        \cup {[exists |-> TRUE, decrypts |-> FALSE, fields |-> NoTriple]}
\* The UserAPIKey record of the user for service 'voice' (models.py
\* 334-345): encrypted_key, decrypted by _decrypt_key (lines 132-141), and
\* extra_config with or without 'app_id' and 'api_secret'.
LegacyKeys ==
    {[exists |-> FALSE, decrypts |-> TRUE, fields |-> NoTriple]}
        \cup [exists : {TRUE}, decrypts : {TRUE},
              fields : {t \in Triples("legacy") : t.api_key = "legacy"}]
        \cup {[exists |-> TRUE, decrypts |-> FALSE, fields |-> NoTriple]}

Constructions ==
    [pc : {"called"}, args : Triples("explicit"), user : BOOLEAN,
     voice_key : VoiceKeys, legacy : LegacyKeys, settings : Triples("settings")]
NoConstruction ==
    [pc |-> "idle", args |-> NoTriple, user |-> FALSE,
     voice_key |-> [exists |-> FALSE, decrypts |-> TRUE, fields |-> NoTriple],
     legacy |-> [exists |-> FALSE, decrypts |-> TRUE, fields |-> NoTriple],
     settings |-> NoTriple]
ConstructionIdle == construction = NoConstruction

\* Lines 99-121: the locals app_id, api_key, api_secret after the lookup
\* in the user's records, or the exception that leaves the constructor.
Raised == [raised |-> TRUE, triple |-> NoTriple]
Found(t) == [raised |-> FALSE, triple |-> t]
FromUserRecords(c) ==
    IF ~(c.user /\ c.args.api_key = "") THEN Found(c.args)
    ELSE IF c.voice_key.exists
    THEN IF c.voice_key.decrypts THEN Found(c.voice_key.fields) ELSE Raised
    ELSE IF c.legacy.exists
    THEN IF c.legacy.decrypts
         THEN Found([api_key |-> c.legacy.fields.api_key,
                     app_id |-> Or(c.legacy.fields.app_id, c.args.app_id),
                     api_secret |-> Or(c.legacy.fields.api_secret,
                                       c.args.api_secret)])
         ELSE Raised
    ELSE Found(c.args)

\* Lines 123-125: each field on its own falls back to the settings.
WithSettings(t, settings) ==
    [app_id |-> Or(t.app_id, settings.app_id),
     api_key |-> Or(t.api_key, settings.api_key),
     api_secret |-> Or(t.api_secret, settings.api_secret)]

ConstructInit ==
    /\ construction \in Constructions
    /\ app_id = ""
    /\ api_key = ""
    /\ api_secret = ""

\* Lines 97-130.
Construct ==
    /\ construction.pc = "called"
    /\ LET found == FromUserRecords(construction)
           triple == WithSettings(found.triple, construction.settings)
       IN  IF found.raised
           THEN /\ construction' = [construction EXCEPT !.pc = "raised"]
                /\ UNCHANGED <<svcVars, sessVars>>
           ELSE /\ construction' = [construction EXCEPT !.pc = "constructed"]
                /\ app_id' = triple.app_id
                /\ api_key' = triple.api_key
                /\ api_secret' = triple.api_secret
                /\ recognition_result' = <<>>
                /\ recognition_complete' = FALSE
                /\ recognition_error' = None
    /\ UNCHANGED <<mainVars, chanVars, sendVars, histVars, now>>
    /\ UNCHANGED <<cmdVars, procVars, requests>>
    /\ UNCHANGED <<audio_data, trackVars, categorized, fallback_log>>

(***************************************************************************)
(* VoiceService.process_voice_command, lines 738-767, and                 *)
(* ExpenseTracker.add_expense_from_voice, budget_service.py 434-512.       *)
(* transcribe_audio is taken by what it returns; the processor is the one  *)
(* modelled above, with the LLM as its environment.                        *)
(***************************************************************************)
\* Calls of add_expense_from_voice on one ExpenseTracker.
MaxTrackerCalls == 2

Users == {"alice", "bob"}
\* The TravelPlan table: plan 1 of alice; there is no plan 2.
PlanIds == {1, 2}
Plans == {[id |-> 1, user |-> "alice", currency |-> "CNY"]}
\* models.py 96-103: CATEGORY_CHOICES of ExpenseEntry.
CATEGORY_CHOICES ==
    {"transportation", "accommodation", "food", "entertainment", "shopping", "other"}

\* "花了0元" and "去"
TextZero == HuaLe \o <<"0", Yuan>>
TextGo == <<"u53BB">>
TrackTexts == {<<>>, TextMeal, Text500, TextZero, HuaLe, TextGo}
\* What transcribe_audio returns (lines 210-273).
TranscribeReturns ==
    {NotConfigured, RecognitionTimeout, Failed(StrOf("convert")),
     Failed(RequestError(10165)), Failed(StrOf("connection lost"))}
        \cup {Success(t) : t \in TrackTexts}

\* A value of 'amount' that is not a number (a JSON string such as "abc").
NotANumber == [num |-> 0, den |-> 0]
\* LLM replies that name an expense: entities as the model wrote them.
ExpenseReply(e) ==
    [kind |-> "json",
     value |-> [type |-> "object", intent |-> Present("add_expense"),
                confidence |-> Absent(0), entities |-> Present(e),
                response |-> Absent(<<>>)]]
TrackLlm ==
    {NoLlm}
        \cup {[init |-> "ok", chat |-> ExpenseReply(e)] :
                 e \in {Put(Put(NoEntities, "amount", FloatOfInt(60)), "category", "dance"),
                        Put(Put(NoEntities, "amount", NotANumber), "category", "food"),
                        Put(NoEntities, "category", "food")}}

\* An error text: what failed and, for a transcription failure, its cause.
Error(tag, cause) == [tag |-> tag, cause |-> cause]
NoError == Error("", None)

\* Lines 744-753: a failed transcription is flattened into the router's
\* failure, which carries transcription_result['error'].
\* (Mutant: the default text is returned in place of the stage's error.)
Flatten_DefaultError(r) ==
    [success |-> FALSE, error |-> Error("Transcription failed", None),
     transcription |-> <<>>, intent |-> "unknown", entities |-> NoEntities,
     response |-> <<>>, confidence |-> 0]
Flatten(r) ==
    [success |-> FALSE, error |-> Error(r.tag, r.cause),
     transcription |-> <<>>, intent |-> "unknown", entities |-> NoEntities,
     response |-> <<>>, confidence |-> 0]
\* Lines 761-768.
Routed(r, cmd) ==
    [success |-> TRUE, error |-> NoError, transcription |-> r.text,
     intent |-> cmd.intent, entities |-> cmd.entities,
     response |-> cmd.response, confidence |-> cmd.confidence]
NoVoiceResult ==
    [success |-> FALSE, error |-> Error("pending", None),
     transcription |-> <<>>, intent |-> "", entities |-> NoEntities,
     response |-> <<>>, confidence |-> 0]

\* ExpenseEntry.amount, models.py 105: DecimalField(max_digits=10,
\* decimal_places=2).  Decimal(str(amount)) (line 489) raises for a value
\* that is not a number; the stored value is rounded to hundredths (half
\* to even) and refused when it needs more than eight integer digits.
RECURSIVE Lowest(_, _)
Lowest(n, d) ==
    IF d > 1 /\ n % 10 = 0 THEN Lowest(n \div 10, d \div 10)
    ELSE [num |-> n, den |-> d]
Hundredths(a) ==
    LET scaled == a.num * 100
        q == scaled \div a.den
        r == scaled % a.den
    IN  IF 2 * r > a.den \/ (2 * r = a.den /\ q % 2 = 1) THEN q + 1 ELSE q
Storable(a) == a.den # 0 /\ a.num \div a.den < Pow10(8)
Stored(a) == Lowest(Hundredths(a), 100)

\* Line 477, `if not amount`: None, 0 and 0.0 are falsy.
TruthyAmount(entities) ==
    /\ "amount" \in DOMAIN entities
    /\ entities.amount.den = 0 \/ entities.amount.num # 0
\* Line 476: entities.get('category', 'other').
CategoryOf(entities) ==
    IF "category" \in DOMAIN entities THEN entities.category ELSE "other"
\* Line 481: TravelPlan.objects.get(id=plan_id, user=user).
\* (Mutant: the plan is looked up by its id alone.)
OwnPlans_AnyOwner(plan_id, u) == {pl \in plans : pl.id = plan_id}
OwnPlans(plan_id, u) == {pl \in plans : pl.id = plan_id /\ pl.user = u}

\* Lines 455-494: whether the call gets as far as creating the entry
\* without an exception.
Creates(vr, plan_id, u) ==
    /\ vr.success
    /\ vr.intent = "add_expense"
    /\ TruthyAmount(vr.entities)
    /\ OwnPlans(plan_id, u) # {}
    /\ Storable(vr.entities.amount)

\* Lines 487-493: the entry created.
Entry(vr, pl) ==
    [travel_plan |-> pl.id, amount |-> Stored(vr.entities.amount),
     category |-> CategoryOf(vr.entities),
     description |-> <<"voice record">> \o vr.transcription,
     currency |-> pl.currency]

\* Lines 507-512: an exception is caught and returned as a failure.
Caught == [success |-> FALSE, expense_id |-> 0, error |-> Error("exception", None)]
\* Lines 455-485: the failure returned when no entry is made.
Refusal(vr, plan_id, u) ==
    IF ~vr.success THEN [Caught EXCEPT !.error = vr.error]
    ELSE IF vr.intent # "add_expense"
    THEN [Caught EXCEPT !.error = Error("no expense intent", None)]
    ELSE IF ~TruthyAmount(vr.entities)
    THEN [Caught EXCEPT !.error = Error("no amount", None)]
    ELSE IF OwnPlans(plan_id, u) = {}
    THEN [Caught EXCEPT !.error = Error("no such plan", None)]
    ELSE Caught
NoTrackerResult == [success |-> FALSE, expense_id |-> 0, error |-> Error("pending", None)]

\* Lines 431-432.
NoTracker ==
    [voice_service |-> "None", pc |-> "idle", user |-> "none", plan_id |-> 0,
     calls |-> 0, result |-> NoTrackerResult]
TrackIdle ==
    /\ voice_result = NoVoiceResult
    /\ tracker = NoTracker
    /\ plans = {}
    /\ expenses = <<>>

TrackInit ==
    /\ voice_result = NoVoiceResult
    /\ tracker = NoTracker
    /\ plans = Plans
    /\ expenses = <<>>

\* Lines 446-450: the call is entered for user u; the voice service is
\* created on the tracker's first call, for the user of that call, and
\* kept.  VoiceService(user=u) (lines 728-732) creates the recognition
\* service, whose constructor may raise, and the processor.  b is what
\* the LLM will do when the processor asks it during this call.
AddExpenseCall ==
    /\ tracker.pc = "idle"
    /\ tracker.calls < MaxTrackerCalls
    /\ \E u \in Users, p \in PlanIds, b \in TrackLlm, constructs \in BOOLEAN :
        /\ llm' = b
        /\ IF tracker.voice_service # "None"
           THEN /\ tracker' = [tracker EXCEPT !.pc = "voice", !.user = u,
                                              !.plan_id = p, !.calls = @ + 1,
                                              !.result = NoTrackerResult]
                /\ UNCHANGED <<user, llm_service>>
           ELSE IF constructs
           THEN /\ tracker' = [tracker EXCEPT !.voice_service = u, !.pc = "voice",
                                              !.user = u, !.plan_id = p,
                                              !.calls = @ + 1,
                                              !.result = NoTrackerResult]
                /\ user' = u
                /\ llm_service' = "None"
           ELSE /\ tracker' = [tracker EXCEPT !.user = u, !.plan_id = p,
                                              !.calls = @ + 1,
                                              !.result = Caught]
                /\ UNCHANGED <<user, llm_service>>
    /\ voice_result' = NoVoiceResult
    /\ transcription' = <<>>
    /\ command' = NoCommand
    /\ cmdPc' = "idle"
    /\ UNCHANGED <<context, plans, expenses>>
    /\ UNCHANGED <<voiceVars, requests, audio_data, construction, categorized, fallback_log>>

\* Lines 738-767, called at budget_service.py 453 without a context.
ProcessVoiceCommand ==
    /\ tracker.pc = "voice"
    /\ \E r \in TranscribeReturns :
        /\ ret' = r
        /\ IF ~r.success
           THEN /\ voice_result' = Flatten(r)
                /\ UNCHANGED <<transcription, cmdPc, command, llm_service>>
           ELSE /\ transcription' = r.text
                /\ command' = process_command(r.text, "no context")
                /\ llm_service' = IF r.text = <<>> THEN llm_service ELSE LlmServiceAfter
                /\ cmdPc' = "returned"
                /\ voice_result' = Routed(r, process_command(r.text, "no context"))
    /\ tracker' = [tracker EXCEPT !.pc = "finish"]
    /\ UNCHANGED <<context, user, llm, plans, expenses>>
    /\ UNCHANGED <<svcVars, sessVars, pcMain, pcm_audio_data, start_time, calls,
                   chanVars, sendVars, histVars, now>>
    /\ UNCHANGED <<requests, audio_data, construction, categorized, fallback_log>>

\* Lines 455-512.
AddExpenseFinish ==
    /\ tracker.pc = "finish"
    /\ IF Creates(voice_result, tracker.plan_id, tracker.user)
       THEN /\ expenses' =
                  Append(expenses,
                         Entry(voice_result,
                               CHOOSE pl \in OwnPlans(tracker.plan_id, tracker.user) : TRUE))
            /\ tracker' = [tracker EXCEPT
                              !.pc = "idle",
                              !.result = [success |-> TRUE,
                                          expense_id |-> Len(expenses) + 1,
                                          error |-> NoError]]
       ELSE /\ expenses' = expenses
            /\ tracker' = [tracker EXCEPT
                              !.pc = "idle",
                              !.result = Refusal(voice_result, tracker.plan_id,
                                                 tracker.user)]
    /\ UNCHANGED <<voice_result, plans>>
    /\ UNCHANGED <<voiceVars, cmdVars, procVars, requests>>
    /\ UNCHANGED <<audio_data, construction, categorized, fallback_log>>

TrackNext ==
    \/ AddExpenseCall
    \/ ProcessVoiceCommand
    \/ AddExpenseFinish

(***************************************************************************)
(* ExpenseTracker.categorize_expense, budget_service.py 514-547, next to   *)
(* the category the voice extractor gives the same text and amount.        *)
(***************************************************************************)
\* Lines 528-534, in the dict's (insertion) order.
category_keywords ==
    << \* 餐 饭 吃 食 咖啡 茶 小吃 早餐 午餐 晚餐
       [category |-> "food",
        keywords |-> <<<<"u9910">>,
                      <<"u996D">>,
                      <<"u5403">>,
                      <<"u98DF">>,
                      <<"u5496", "u5561">>,
                      <<"u8336">>,
                      <<"u5C0F", "u5403">>,
                      <<"u65E9", "u9910">>,
                      <<"u5348", "u9910">>,
                      <<"u665A", "u9910">>>>],
       \* 车 票 地铁 公交 出租 滴滴 火车 飞机 船
       [category |-> "transportation",
        keywords |-> <<<<"u8F66">>,
                      <<"u7968">>,
                      <<"u5730", "u94C1">>,
                      <<"u516C", "u4EA4">>,
                      <<"u51FA", "u79DF">>,
                      <<"u6EF4", "u6EF4">>,
                      <<"u706B", "u8F66">>,
                      <<"u98DE", "u673A">>,
                      <<"u8239">>>>],
       \* 住 酒店 宾馆 民宿 旅店 房间
       [category |-> "accommodation",
        keywords |-> <<<<"u4F4F">>,
                      <<"u9152", "u5E97">>,
                      <<"u5BBE", "u9986">>,
                      <<"u6C11", "u5BBF">>,
                      <<"u65C5", "u5E97">>,
                      <<"u623F", "u95F4">>>>],
       \* 门票 景点 游乐 电影 演出 博物馆 公园
       [category |-> "entertainment",
        keywords |-> <<<<"u95E8", "u7968">>,
                      <<"u666F", "u70B9">>,
                      <<"u6E38", "u4E50">>,
                      <<"u7535", "u5F71">>,
                      <<"u6F14", "u51FA">>,
                      <<"u535A", "u7269", "u9986">>,
                      <<"u516C", "u56ED">>>>],
       \* 买 购 商店 超市 纪念品 礼品 衣服
       [category |-> "shopping",
        keywords |-> <<<<"u4E70">>,
                      <<"u8D2D">>,
                      <<"u5546", "u5E97">>,
                      <<"u8D85", "u5E02">>,
                      <<"u7EAA", "u5FF5", "u54C1">>,
                      <<"u793C", "u54C1">>,
                      <<"u8863", "u670D">>>>] >>

\* Lines 525-547: the first category, in the order of the dict, one of
\* whose keywords is in the lower-cased description; without one, the
\* category follows from the amount.
categorize_expense(description, amount) ==
    LET description_lower == Lower(description)
        hits == {k \in 1..Len(category_keywords) :
                   \E j \in 1..Len(category_keywords[k].keywords) :
                       Contains(description_lower, category_keywords[k].keywords[j])}
    IN  IF hits # {}
        THEN category_keywords[CHOOSE k \in hits : \A j \in hits : k <= j].category
        ELSE IF FloatLess(FloatOfInt(500), amount) THEN "accommodation"
        ELSE IF FloatLess(FloatOfInt(100), amount) THEN "entertainment"
        ELSE "food"

\* voice_service.py 612-648 for a text whose amount is known.
voice_category(text, amount) ==
    InferCategory(ExtractCategory(text, Put(NoEntities, "amount", amount))).category

Amounts == {FloatOfInt(n) : n \in {30, 100, 101, 500, 501}}
NoCategorized ==
    [pc |-> "idle", description |-> <<>>, amount |-> FloatOfInt(0),
     tracker |-> "", voice |-> ""]
CategorizedIdle == categorized = NoCategorized

CategorizeInit ==
    categorized \in [pc : {"called"}, description : LlmTexts, amount : Amounts,
                     tracker : {""}, voice : {""}]

Categorize ==
    /\ categorized.pc = "called"
    /\ categorized' =
           [categorized EXCEPT
               !.pc = "returned",
               !.tracker = categorize_expense(categorized.description,
                                              categorized.amount),
               !.voice = voice_category(categorized.description,
                                        categorized.amount)]
    /\ UNCHANGED <<voiceVars, cmdVars, procVars, requests>>
    /\ UNCHANGED <<audio_data, construction, trackVars, fallback_log>>

(***************************************************************************)
(* _fallback_rule_based_processing called several times on one processor   *)
(* (lines 503-519).  Each call is the end of a process_command call        *)
(* (line 452) whose _analyze_with_llm gave nothing: that call may have     *)
(* created llm_service on the way (lines 457-463).                         *)
(***************************************************************************)
MaxFallbackCalls == 2

\* The transcripts of the calls: not empty, as line 435 has passed.
RepeatTexts == (NamedTexts \cup TrackTexts) \ {<<>>}
FallbackLogIdle == fallback_log = <<>>

RepeatInit ==
    /\ CmdIdle
    /\ user \in {"none", "user"}
    /\ llm_service \in {"None", "service"}
    /\ llm_service = "service" => user = "user"
    /\ llm \in {b \in LlmBehaviours : b.chat = ChatOther("none")}
    /\ FallbackLogIdle

FallbackCall ==
    /\ Len(fallback_log) < MaxFallbackCalls
    /\ \E t \in RepeatTexts, c \in Contexts :
        /\ transcription' = t
        /\ context' = c
        /\ command' = _fallback_rule_based_processing(t, c)
        /\ fallback_log' =
               Append(fallback_log,
                      [text |-> t, context |-> c, llm_service |-> llm_service,
                       command |-> _fallback_rule_based_processing(t, c)])
    /\ llm_service' = LlmServiceAfter
    /\ cmdPc' = "returned"
    /\ UNCHANGED <<user, llm>>
    /\ UNCHANGED <<voiceVars, requests, audio_data, construction, trackVars, categorized>>

(***************************************************************************)
(* Specifications.                                                         *)
(***************************************************************************)
vars == <<voiceVars, cmdVars, procVars, requests, appVars>>

ProcIdle ==
    /\ user = "none"
    /\ llm_service = "None"
    /\ llm = NoLlm

\* The parts that a specification does not follow stay as constructed.
AppIdle ==
    /\ AudioIdle
    /\ ConstructionIdle
    /\ TrackIdle
    /\ CategorizedIdle
    /\ FallbackLogIdle

\* The transcription service: one service object and its calls.
Init == VoiceInit /\ CmdIdle /\ ProcIdle /\ RequestsIdle /\ AppIdle
Next == VoiceNext
Spec == Init /\ [][Next]_vars

\* The rule-based processor applied to a transcript.
VoiceIdle == VoiceInit /\ app_id = "set" /\ api_key = "set" /\ api_secret = "set"
CmdSpecInit == VoiceIdle /\ CmdInit /\ ProcIdle /\ RequestsIdle /\ AppIdle
CmdSpecNext == CmdNext
CmdSpec == CmdSpecInit /\ [][CmdSpecNext]_vars

\* process_command with its LLM collaborator.
ProcSpecInit == VoiceIdle /\ ProcInit /\ RequestsIdle /\ AppIdle
ProcSpec == ProcSpecInit /\ [][ProcNext]_vars

\* Two overlapping requests through one service object.
OverlapSpec == Init /\ [][OverlapNext]_vars

\* The rule-based fallback called repeatedly on one processor.
RepeatSpecInit ==
    /\ VoiceIdle /\ RequestsIdle /\ RepeatInit
    /\ AudioIdle /\ ConstructionIdle /\ TrackIdle /\ CategorizedIdle
RepeatSpec == RepeatSpecInit /\ [][FallbackCall]_vars

\* Voice expenses: calls of add_expense_from_voice on one tracker.
TrackSpecInit ==
    /\ VoiceIdle /\ CmdIdle /\ ProcIdle /\ RequestsIdle /\ TrackInit
    /\ AudioIdle /\ ConstructionIdle /\ CategorizedIdle /\ FallbackLogIdle
TrackSpec == TrackSpecInit /\ [][TrackNext]_vars

\* The two categorisers applied to one description and amount.
CategorizeSpecInit ==
    /\ VoiceIdle /\ CmdIdle /\ ProcIdle /\ RequestsIdle /\ CategorizeInit
    /\ AudioIdle /\ ConstructionIdle /\ TrackIdle /\ FallbackLogIdle
CategorizeSpec == CategorizeSpecInit /\ [][Categorize]_vars

\* The construction of a transcription service.
ConstructSpecInit ==
    /\ VoiceInit /\ CmdIdle /\ ProcIdle /\ RequestsIdle /\ ConstructInit
    /\ AudioIdle /\ TrackIdle /\ CategorizedIdle /\ FallbackLogIdle
ConstructSpec == ConstructSpecInit /\ [][Construct]_vars

\* The transcription service called with less audio than a header.
ShortAudioSpecInit ==
    /\ VoiceInit /\ CmdIdle /\ ProcIdle /\ RequestsIdle
    /\ audio_data \in ShortAudio
    /\ ConstructionIdle /\ TrackIdle /\ CategorizedIdle /\ FallbackLogIdle
ShortAudioSpec == ShortAudioSpecInit /\ [][Next]_vars


(***************************************************************************)
(* Properties of the send loop.                                            *)
(***************************************************************************)
NonFinalFrames == {k \in 1..Len(frames) : frames[k].status # STATUS_LAST_FRAME}
LastFrames == {k \in 1..Len(frames) : frames[k].status = STATUS_LAST_FRAME}
FrameBytes(k) == frames[k].end - frames[k].off

\* C1: when the send loop has finished a buffer of L bytes, it has sent
\* exactly floor(L / 1280) frames of a non-final status, and the frame of
\* status last carries the remaining L mod 1280 bytes.
C1_FrameSequencing ==
    pcSend = "done" =>
        /\ Cardinality(NonFinalFrames) = pcm_audio_data \div frame_size
        /\ \A k \in LastFrames : FrameBytes(k) = pcm_audio_data % frame_size

\* C9: for a non-empty buffer the frames handed to the channel have the
\* statuses first, continue*, last, nothing follows the last frame, and
\* the frames carry slices of strictly increasing offsets.
C9_FrameOrder ==
    pcm_audio_data > 0 =>
        /\ \A k \in 1..Len(frames) :
               /\ (frames[k].status = STATUS_FIRST_FRAME) <=> (k = 1)
               /\ frames[k].status = STATUS_LAST_FRAME => k = Len(frames)
        /\ pcSend = "done" => frames # <<>> /\ frames[Len(frames)].status = STATUS_LAST_FRAME
        /\ \A j, k \in 1..Len(frames) : j < k => frames[j].off < frames[k].off

\* C10: for every buffer, the empty one included, a send loop that runs to
\* its end on an open channel has sent a frame of status last.
C10_LastFrameSent == pcSend = "done" => LastFrames # {}

(***************************************************************************)
(* Properties of transcribe_audio and of the session.                      *)
(***************************************************************************)
InCall == pcMain \in {"run_forever", "poll"}

\* C2: with valid credentials and decodable audio, while no status-2
\* envelope has arrived and no error has been signalled, transcribe_audio
\* does not stay in the call beyond the 30 s timeout (to the clock's
\* granularity): it has returned the timeout failure by then.
C2_ReturnsAtTimeout ==
    (InCall /\ ~recognition_complete /\ recognition_error = None)
        => now <= timeout + TickStep

\* C3: once the session is complete or errored, no step of the same call
\* changes the transcript, the completion flag or the error.
C3_TerminalIsFinal ==
    [][((recognition_complete \/ recognition_error # None) /\ calls' = calls)
           => UNCHANGED sessVars]_vars

\* The session completed while another envelope was in flight, and the
\* call has returned.
C3_Witness ==
    /\ recognition_complete
    /\ pcMain = "returned"
    /\ sent_by_server = 2
    /\ Len(received) = 1

\* C6: a call made while any credential is empty returns the
\* not-configured failure, and neither decodes the audio, nor creates a
\* channel, nor sends a frame, nor changes the session state.
C6_NotConfigured ==
    [][(calls' = calls + 1 /\ (app_id = "" \/ api_key = "" \/ api_secret = ""))
           => /\ ret' = NotConfigured
              /\ pcMain' = "returned"
              /\ decodes' = decodes
              /\ channels' = channels
              /\ ws' = ws
              /\ pcSend' = pcSend
              /\ frames' = <<>>
              /\ UNCHANGED sessVars]_vars

\* Only one of the three credentials is missing, and the call returned.
C6_Witness ==
    /\ pcMain = "returned"
    /\ ret = NotConfigured
    /\ app_id = "set"
    /\ api_key = "set"
    /\ api_secret = ""

\* The envelope run_forever() is about to hand to _on_message.
Dispatching(m) ==
    /\ pcMain = "run_forever"
    /\ ws = "open"
    /\ inbox # <<>>
    /\ m = Head(inbox)
    /\ received' = Append(received, m)

\* C7: an envelope of a non-zero code makes the session errored with an
\* error that carries the code, closes the channel, leaves the transcript
\* and the completion flag alone, and the call returns a failure that
\* holds the code.
C7_RequestErrorSurfaced ==
    /\ [][\A m \in Envelopes :
              (Dispatching(m) /\ m.kind = "envelope" /\ m.code # 0)
                  => /\ recognition_error' = RequestError(m.code)
                     /\ ws' = "closed"
                     /\ recognition_result' = recognition_result
                     /\ recognition_complete' = FALSE]_vars
    /\ [](\A k \in 1..Len(received) :
              (pcMain = "returned" /\ received[k].kind = "envelope" /\ received[k].code # 0)
                  => ret = Failed(RequestError(received[k].code)))

\* A failure envelope that also holds words and the final status was
\* received after some text, and the call has returned.
C7_Witness ==
    /\ pcMain = "returned"
    /\ Len(received) = 2
    /\ received[2].code # 0
    /\ received[2].status = 2
    /\ received[2].payload = PayloadB
    /\ recognition_result # <<>>

\* The words of the envelopes e[1..n], in that order.
RECURSIVE ArrivedWords(_)
ArrivedWords(e) ==
    IF e = <<>> THEN <<>>
    ELSE ArrivedWords(SubSeq(e, 1, Len(e) - 1)) \o Words(e[Len(e)].payload)

\* C8: a success carries the words of all envelopes received in the
\* session, in the order of arrival, up to and including the status-2
\* envelope, with the surrounding whitespace stripped; every such
\* envelope has code 0.
C8_TranscriptInArrivalOrder ==
    (pcMain = "returned" /\ ret.success) =>
        /\ received # <<>>
        /\ \A k \in 1..Len(received) :
               /\ received[k].kind = "envelope"
               /\ received[k].code = 0
               /\ (received[k].status = 2) <=> (k = Len(received))
        /\ ret.text = Strip(ArrivedWords(received))

\* Two envelopes with different words arrived and the stripped text
\* differs from the accumulated one.
C8_Witness ==
    /\ pcMain = "returned"
    /\ ret.success
    /\ Len(received) = 2
    /\ received[1].payload = PayloadA
    /\ received[2].payload = PayloadB
    /\ ret.text # recognition_result

\* C11: whenever transcribe_audio has returned the timeout failure, the
\* channel of that call is closed, and from then on no frame of that call
\* is handed to the channel.
C11_TimeoutLeavesChannelClosed ==
    /\ [](pcMain = "returned" /\ ret = RecognitionTimeout => ws = "closed")
    /\ [][(pcMain = "returned" /\ ret = RecognitionTimeout /\ calls' = calls)
              => frames' = frames]_vars

\* The call returned the timeout failure while its send thread had sent
\* a frame and still had audio left to send.
C11_Witness ==
    /\ pcMain = "returned"
    /\ ret = RecognitionTimeout
    /\ pcSend = "loop"
    /\ frames # <<>>
    /\ audio_offset < pcm_audio_data

\* A step of the send thread of the current call.
SenderStep ==
    /\ pcSend \in {"loop", "last"}
    /\ calls' = calls
    /\ \/ pcSend' # pcSend
       \/ audio_offset' # audio_offset
       \/ frames' # frames

\* C12: the reader of transcribe_audio (the loop of line 245 and the
\* success return after it) never sees a torn session: whenever it sees the
\* completion flag, the transcript holds the words of every envelope
\* received, the completing one included, and a success returns exactly
\* them; and no step of the send thread writes the transcript, the
\* completion flag or the error.
C12_NoTornState ==
    /\ []((recognition_complete
               /\ (pcMain = "poll" \/ (pcMain = "returned" /\ ret.success)))
             => /\ received # <<>>
                /\ received[Len(received)].status = 2
                /\ recognition_result = ArrivedWords(received)
                /\ pcMain = "returned" => ret = Success(Strip(recognition_result)))
    /\ []((pcMain = "returned" /\ ret.success) => recognition_complete)
    /\ [][SenderStep => UNCHANGED sessVars]_vars

\* The reader sees the flag set by an envelope that itself carried words,
\* after an earlier envelope with words, while the send thread is running.
C12_Witness ==
    /\ pcMain = "poll"
    /\ recognition_complete
    /\ Len(received) = 2
    /\ received[1].payload = PayloadB
    /\ received[2].payload = PayloadA
    /\ pcSend = "loop"

\* C13: two transcribe_audio requests that overlap on one service object
\* do not affect each other: what a request returns depends only on the
\* envelopes received on its own channel.  A success carries the words of
\* its own envelopes, the last of which has status 2, and a request error
\* carries the code of one of its own envelopes.
C13_RequestsIndependent ==
    \A r \in Requests :
        LET mine == requests[r].received
            out == requests[r].ret
        IN  requests[r].pc = "returned" =>
                /\ out.success =>
                       /\ mine # <<>>
                       /\ mine[Len(mine)].status = 2
                       /\ out.text = Strip(ArrivedWords(mine))
                /\ \A c \in ErrorCodes :
                       out = Failed(RequestError(c)) =>
                           \E k \in 1..Len(mine) : mine[k].code = c

(***************************************************************************)
(* Properties of the rule-based fallback.                                  *)
(***************************************************************************)
\* "北京"
Beijing == <<"u5317", "u4EAC">>

\* C4: the fallback turns "我想去北京玩3天，预算2000元" into the intent
\* create_plan with destination 北京, 3 days and a budget of 2000.
C4_BeijingPlan ==
    (cmdPc = "returned" /\ transcription = TextBeijing) =>
        /\ command.intent = "create_plan"
        /\ DOMAIN command.entities = {"destination", "days", "budget"}
        /\ command.entities["destination"] = Beijing
        /\ command.entities["days"] = 3
        /\ command.entities["budget"] = 2000

\* C5: the fallback turns "我花了60元吃饭" into the intent add_expense
\* with amount 60 and category food.
C5_MealExpense ==
    (cmdPc = "returned" /\ transcription = TextMeal) =>
        /\ command.intent = "add_expense"
        /\ DOMAIN command.entities = {"amount", "category"}
        /\ command.entities["amount"] = FloatOfInt(60)
        /\ command.entities["category"] = "food"

C5_Witness == cmdPc = "returned" /\ transcription = TextMeal


(***************************************************************************)
(* Properties of process_command.                                          *)
(***************************************************************************)
Intents == {"create_plan", "modify_plan", "add_expense", "query_plan", "general"}

\* The LLM gave nothing to use: there is no service (no user, or it could
\* not be initialised), the chat failed, or the reply was empty or was
\* not a JSON object.
LlmGaveNothing ==
    \/ llm_service = "None"
    \/ llm.chat.kind \in {"raises", "none", "empty", "blank", "text"}
    \/ llm.chat.kind = "json" /\ llm.chat.value.type # "object"

\* C14: for a non-empty transcript process_command returns a command, and
\* when the LLM is unavailable, cannot be initialised, fails, or replies
\* with nothing or with text that is not a JSON object, that command is
\* exactly the rule-based fallback's, with confidence 0.75.
C14_FallsBackToRules ==
    (cmdPc = "returned" /\ transcription # <<>>) =>
        /\ command # NoCommand
        /\ LlmGaveNothing =>
               /\ command = _fallback_rule_based_processing(transcription, context)
               /\ command.confidence = RuleConfidence

\* There is a service, its reply was JSON but no object, and the meal
\* transcript was processed by the rules.
C14_Witness ==
    /\ cmdPc = "returned"
    /\ transcription = TextMeal
    /\ user = "user"
    /\ llm_service = "service"
    /\ llm.chat.kind = "json"
    /\ llm.chat.value.type = "array"
    /\ command.intent = "add_expense"

\* C15: every command process_command returns, for any transcript, the
\* empty one included, and any LLM reply, has one of the five enumerated
\* intents and a confidence in [0, 1].
C15_WellFormedCommand ==
    cmdPc = "returned" =>
        /\ command.intent \in Intents
        /\ command.confidence \in 0..100


(***************************************************************************)
(* Properties of the rule-based classifier and extractor.                  *)
(***************************************************************************)
Returned(intent) == cmdPc = "returned" /\ command.intent = intent
HasDestination(text) ==
    \E k \in 1..Len(classify_destinations) : Contains(text, classify_destinations[k])
HasTravelWord(text) ==
    \E k \in 1..Len(travel_words) : Contains(text, travel_words[k])

\* The score of the k-th candidate intent: its keyword hits, plus 3 for
\* add_expense when digits are followed by 元, plus 2 for create_plan
\* when a destination and a travel word occur.
Score(text, k) ==
    KeywordHits(Lower(text), intent_keywords[k].keywords)
        + (IF intent_keywords[k].intent = "add_expense"
              /\ SearchDigitsAnyThen(Lower(text), Yuan) THEN 3 ELSE 0)
        + (IF intent_keywords[k].intent = "create_plan"
              /\ HasDestination(Lower(text)) /\ HasTravelWord(Lower(text)) THEN 2 ELSE 0)

\* C16: the classifier returns an intent of highest score; of several
\* intents with the highest score it returns the first in the order
\* create_plan, modify_plan, add_expense, query_plan, general; and it
\* returns general when every score is zero.
C16_FirstOfHighestScore ==
    cmdPc = "returned" =>
        LET n == Len(intent_keywords)
            best == CHOOSE k \in 1..n :
                        /\ \A j \in 1..n : Score(transcription, j) <= Score(transcription, k)
                        /\ \A j \in 1..(k - 1) : Score(transcription, j) < Score(transcription, k)
        IN  command.intent = IF Score(transcription, best) = 0
                             THEN "general"
                             ELSE intent_keywords[best].intent

CategoryPriority ==
    <<"entertainment", "food", "accommodation", "transportation", "shopping">>
HasKeywordOf(text, category) ==
    \E k \in 1..Len(categories) :
        categories[k].category = category /\ Contains(text, categories[k].keyword)

\* C17: for add_expense, a text with an entertainment keyword and a
\* transportation keyword gets the category entertainment; in general
\* the category is the first, in the order entertainment, food,
\* accommodation, transportation, shopping, that has a keyword in the text.
C17_CategoryPriority ==
    Returned("add_expense") =>
        /\ (HasKeywordOf(transcription, "entertainment")
               /\ HasKeywordOf(transcription, "transportation"))
              => command.entities["category"] = "entertainment"
        /\ \A i \in 1..Len(CategoryPriority) :
               (/\ HasKeywordOf(transcription, CategoryPriority[i])
                /\ \A j \in 1..(i - 1) : ~HasKeywordOf(transcription, CategoryPriority[j]))
                   => command.entities["category"] = CategoryPriority[i]

\* "花了车门票": the transportation keyword comes first in the text.
C17_Witness ==
    /\ Returned("add_expense")
    /\ transcription = HuaLe \o <<"u8F66">> \o <<"u95E8", "u7968">>

\* C18: for add_expense the amount is the first occurrence of the first
\* of the patterns digits+元, 花了+digits, 费用+digits, digits+块 that
\* matches anywhere in the text; if none matches, the numerically largest
\* number of the text; if the text has no number, there is no amount.
C18_AmountReference ==
    Returned("add_expense") =>
        LET text == transcription
            e == command.entities
            yuan == FirstNumThen(text, Yuan)
            spent == FirstNumAfter(text, HuaLe)
            fee == FirstNumAfter(text, FeiYong)
            kuai == FirstNumThen(text, Kuai)
            numbers == AllNumbers(text, 1)
        IN  IF yuan # <<>> THEN e["amount"] = Float(yuan[1])
            ELSE IF spent # <<>> THEN e["amount"] = Float(spent[1])
            ELSE IF fee # <<>> THEN e["amount"] = Float(fee[1])
            ELSE IF kuai # <<>> THEN e["amount"] = Float(kuai[1])
            ELSE IF numbers # <<>>
            THEN /\ \E k \in 1..Len(numbers) : e["amount"] = Float(numbers[k])
                 /\ \A k \in 1..Len(numbers) : ~FloatLess(e["amount"], Float(numbers[k]))
            ELSE "amount" \notin DOMAIN e

\* "花了30买了6元": the second pattern matches earlier in the text than
\* the first, and the first decides.
C18_Witness ==
    /\ Returned("add_expense")
    /\ transcription = TextOrder
    /\ command.entities["amount"] = FloatOfInt(6)

\* C19: for add_expense without a category keyword in the text, an
\* amount above 500 gives accommodation, an amount above 100 and up to
\* 500 entertainment, an amount up to 100 food; without an amount there
\* is no category.
C19_CategoryFromAmount ==
    (Returned("add_expense")
        /\ \A i \in 1..Len(CategoryPriority) : ~HasKeywordOf(transcription, CategoryPriority[i]))
    => LET e == command.entities
       IN  IF "amount" \in DOMAIN e
           THEN e["category"] =
                    IF FloatLess(FloatOfInt(500), e["amount"]) THEN "accommodation"
                    ELSE IF FloatLess(FloatOfInt(100), e["amount"]) THEN "entertainment"
                    ELSE "food"
           ELSE "category" \notin DOMAIN e

\* "花了500": exactly 500 is entertainment.
C19_Witness ==
    /\ Returned("add_expense")
    /\ transcription = Text500
    /\ command.entities["amount"] = FloatOfInt(500)
    /\ command.entities["category"] = "entertainment"

\* C20: for a text classified create_plan that holds a name of the
\* classifier's destination list, the entities hold a destination: the
\* first name of that list, in list order, that is in the text.
C20_DestinationExtracted ==
    (Returned("create_plan") /\ HasDestination(transcription)) =>
        LET first == CHOOSE k \in 1..Len(classify_destinations) :
                         /\ Contains(transcription, classify_destinations[k])
                         /\ \A j \in 1..(k - 1) :
                                ~Contains(transcription, classify_destinations[j])
        IN  /\ "destination" \in DOMAIN command.entities
            /\ command.entities["destination"] = classify_destinations[first]

(***************************************************************************)
(* Properties of the rule-based fallback as a function.                    *)
(***************************************************************************)
\* C21: two calls of _fallback_rule_based_processing on one processor with
\* the same text return the same intent, confidence, entities and
\* response, whatever context each call was given, whatever was called
\* before, and whether or not llm_service existed at the call.
C21_FunctionOfText ==
    \A i, j \in DOMAIN fallback_log :
        fallback_log[i].text = fallback_log[j].text =>
            fallback_log[i].command = fallback_log[j].command

\* Two calls with one text in different contexts, the first without and
\* the second with an llm_service, that found an expense in the text.
C21_Witness ==
    /\ Len(fallback_log) = 2
    /\ fallback_log[1].text = fallback_log[2].text
    /\ fallback_log[1].context # fallback_log[2].context
    /\ fallback_log[1].llm_service # fallback_log[2].llm_service
    /\ fallback_log[2].command.intent = "add_expense"
    /\ "amount" \in DOMAIN fallback_log[2].command.entities

(***************************************************************************)
(* Properties of transcribe_audio's input and outcome.                     *)
(***************************************************************************)
\* C25: for audio of fewer than 44 bytes a configured service returns the
\* format failure of the conversion, and neither creates a channel nor
\* sends a frame, whatever the decoders do with the bytes.
C25_ShortAudioRejected ==
    (audio_data < MinHeaderLength /\ ~CredentialsMissing) =>
        /\ channels = 0
        /\ frames = <<>>
        /\ pcMain = "returned" => ret = Failed(StrOf("convert"))

\* C26: when the send loop has finished, the audio slices of the frames it
\* handed to the channel, taken in send order, tile the PCM buffer: the
\* first starts at byte 0, each starts where the one before it ended, and
\* the last ends at the end of the buffer, so that every byte is sent
\* exactly once.
C26_FramesTileBuffer ==
    pcSend = "done" =>
        /\ frames = <<>> => pcm_audio_data = 0
        /\ frames # <<>> =>
               /\ frames[1].off = 0
               /\ frames[Len(frames)].end = pcm_audio_data
        /\ \A k \in 1..(Len(frames) - 1) : frames[k + 1].off = frames[k].end

\* C28: transcribe_audio returns a success only if in that session an
\* envelope of status 2 and code 0 was processed (the completion flag is
\* set) and no error is recorded; and whenever an error is recorded when
\* the poll loop is left, completion flag set or not, the result is the
\* failure that carries the error.
ReturnsFromPoll == pcMain = "poll" /\ pcMain' = "returned"
C27_OneProvider ==
    construction.pc = "constructed" =>
        Cardinality({app_id, api_key, api_secret} \ {""}) <= 1

(***************************************************************************)
(* Properties of the command router and of voice expenses.                 *)
(***************************************************************************)
RouterReturns == tracker.pc = "voice" /\ tracker'.pc = "finish"
\* add_expense_from_voice returns: at the end of its body, or from the
\* exception handler when the voice service could not be created.
TrackerReturns ==
    /\ tracker'.pc = "idle"
    /\ tracker.pc = "finish" \/ tracker'.calls # tracker.calls

\* C22: process_voice_command returns success exactly when transcribe_audio
\* returned success; when it returned a failure (not configured, format,
\* request error, timeout, transport), the router's failure carries that
\* failure's error, and the processor was not called for the request:
\* nothing was analysed and the LLM service was neither created nor asked.
C22_SuccessIffTranscribed ==
    /\ [](tracker.pc = "finish" =>
             /\ voice_result.success = ret.success
             /\ ~ret.success =>
                    /\ voice_result.error = Error(ret.tag, ret.cause)
                    /\ cmdPc = "idle"
                    /\ command = NoCommand)
    /\ [][(RouterReturns /\ ~ret'.success) => UNCHANGED <<cmdVars, llm_service>>]_vars

\* A request error of the recognition service flattened by the router, on
\* a service whose LLM would have answered.
C22_Witness ==
    /\ tracker.pc = "finish"
    /\ ret = Failed(RequestError(10165))
    /\ ~voice_result.success
    /\ llm # NoLlm
    /\ cmdPc = "idle"

\* C23: a call of add_expense_from_voice creates at most one expense
\* entry.  It creates one only if the voice result is a success with
\* intent add_expense and an amount, and the plan of the given id exists
\* and belongs to the user of the call; it then returns success.  In every
\* other outcome, a caught exception included, it returns a failure and
\* the entries are as before.
C23_AtMostOneExpense ==
    /\ [](Len(expenses) <= tracker.calls)
    /\ [][\/ expenses' = expenses
          \/ /\ TrackerReturns
             /\ expenses' = Append(expenses, expenses'[Len(expenses')])
             /\ voice_result.success
             /\ voice_result.intent = "add_expense"
             /\ "amount" \in DOMAIN voice_result.entities
             /\ \E pl \in plans : pl.id = tracker.plan_id /\ pl.user = tracker.user
             /\ tracker'.result.success]_vars
    /\ [][(TrackerReturns /\ expenses' = expenses) => ~tracker'.result.success]_vars

\* The second call on a tracker creates the first entry: the first call,
\* for bob, was refused.
C23_Witness ==
    /\ tracker.pc = "idle"
    /\ tracker.calls = 2
    /\ tracker.voice_service = "bob"
    /\ tracker.user = "alice"
    /\ tracker.result.success
    /\ Len(expenses) = 1

\* C24: a successful voice result with intent add_expense whose entities
\* hold an amount and a category is a valid request to create an expense:
\* the category is one of ExpenseEntry's categories, the amount is
\* storable as the entry's amount, and when the plan exists and belongs to
\* the user, add_expense_from_voice creates an entry with exactly that
\* amount and category.
C24_EntitiesFormValidRequest ==
    (/\ tracker.pc = "idle"
     /\ voice_result.success
     /\ voice_result.intent = "add_expense"
     /\ {"amount", "category"} \subseteq DOMAIN voice_result.entities) =>
        /\ voice_result.entities.category \in CATEGORY_CHOICES
        /\ Storable(voice_result.entities.amount)
        /\ OwnPlans(tracker.plan_id, tracker.user) # {} =>
               /\ tracker.result.success
               /\ expenses[tracker.result.expense_id].amount =
                      voice_result.entities.amount
               /\ expenses[tracker.result.expense_id].category =
                      voice_result.entities.category

\* C29: during every call of add_expense_from_voice the tracker's voice
\* service, and with it the processor that asks the LLM, is bound to the
\* user passed to that call.
C29_ServiceOfTheCaller ==
    tracker.pc \in {"voice", "finish"} =>
        /\ tracker.voice_service = tracker.user
        /\ user = tracker.user

\* C30: ExpenseTracker.categorize_expense and the voice extractor's
\* category for add_expense agree on every description and amount; in
\* particular a description that contains 门票 is entertainment for both.
C30_CategorisersAgree ==
    categorized.pc = "returned" =>
        /\ categorized.tracker = categorized.voice
        /\ Contains(categorized.description, <<"u95E8", "u7968">>) =>
               categorized.tracker = "entertainment"

====
